---- MODULE Spec2Model ----
(***************************************************************************)
(* Model of the findings aggregation engine of tfreader                    *)
(* (src/app/security_analyzer.py): the three scanner adapters, the         *)
(* resource matcher, the severity/category normalisers and                 *)
(* SecurityAnalyzer.analyze.                                               *)
(*                                                                         *)
(* Python strings are sequences of one-character strings, so that strip,   *)
(* lower, split, endswith, substring search and string comparison are      *)
(* computed rather than assumed.  Process output (stdout, stderr) is a     *)
(* sequence of lexical tokens; a "json" token stands for the text of one   *)
(* well-formed JSON value.  JSON values are records [t, v].                *)
(***************************************************************************)
EXTENDS Integers, Sequences, FiniteSets, TLC

(***************************************************************************)
(* Python str                                                              *)
(***************************************************************************)

\* The characters the model uses, in code-point order.
Alphabet ==
    <<
       " ", ".", "/", "0", "1", "2", "3", "4", "5", "6", "7", "8", "9", "A", "B", "C",
       "D", "E", "F", "G", "H", "I", "J", "K", "L", "M", "N", "O", "P", "Q", "R", "S",
       "T", "U", "V", "W", "X", "Y", "Z", "_", "a", "b", "c", "d", "e", "f", "g", "h",
       "i", "j", "k", "l", "m", "n", "o", "p", "q", "r", "s", "t", "u", "v", "w", "x",
       "y", "z"
    >>

\* ord(c), up to an order-preserving renumbering
OrdTable ==
    [c \in {Alphabet[i] : i \in 1..Len(Alphabet)} |->
        CHOOSE i \in 1..Len(Alphabet) : Alphabet[i] = c]

Ord(c) == OrdTable[c]

\* str.__lt__: lexicographic comparison by code point.
RECURSIVE StrLess(_, _)
StrLess(a, b) ==
    IF b = << >> THEN FALSE
    ELSE IF a = << >> THEN TRUE
    ELSE IF Ord(Head(a)) < Ord(Head(b)) THEN TRUE
    ELSE IF Ord(Head(a)) > Ord(Head(b)) THEN FALSE
    ELSE StrLess(Tail(a), Tail(b))

IsSpace(c) == c = " "

Uppers ==
    <<
       "A", "B", "C", "D", "E", "F", "G", "H", "I", "J", "K", "L", "M", "N", "O", "P",
       "Q", "R", "S", "T", "U", "V", "W", "X", "Y", "Z"
    >>

Lowers ==
    <<
       "a", "b", "c", "d", "e", "f", "g", "h", "i", "j", "k", "l", "m", "n", "o", "p",
       "q", "r", "s", "t", "u", "v", "w", "x", "y", "z"
    >>

LowerTable ==
    [c \in {Uppers[i] : i \in 1..Len(Uppers)} |->
        Lowers[CHOOSE i \in 1..Len(Uppers) : Uppers[i] = c]]

\* str.lower() on one character.
LowerChar(c) == IF c \in DOMAIN LowerTable THEN LowerTable[c] ELSE c

Lower(s) == [i \in 1..Len(s) |-> LowerChar(s[i])]

RECURSIVE LStrip(_)
LStrip(s) == IF s /= << >> /\ IsSpace(Head(s)) THEN LStrip(Tail(s)) ELSE s

RECURSIVE RStrip(_)
RStrip(s) ==
    IF s /= << >> /\ IsSpace(s[Len(s)]) THEN RStrip(SubSeq(s, 1, Len(s) - 1)) ELSE s

\* str.strip()
Strip(s) == RStrip(LStrip(s))

\* str.endswith / the "in" operator on strings / str.find(".")
EndsWith(s, suf) ==
    /\ Len(suf) <= Len(s)
    /\ SubSeq(s, Len(s) - Len(suf) + 1, Len(s)) = suf

Contains(s, sub) ==
    \E i \in 1..(Len(s) - Len(sub) + 1) : SubSeq(s, i, i + Len(sub) - 1) = sub

HasDot(s) == \E i \in 1..Len(s) : s[i] = "."

\* str.split("."): the pieces between dots, empty pieces included.
RECURSIVE SplitDot(_, _)
SplitDot(s, cur) ==
    IF s = << >> THEN << cur >>
    ELSE IF Head(s) = "." THEN << cur >> \o SplitDot(Tail(s), << >>)
    ELSE SplitDot(Tail(s), Append(cur, Head(s)))

Split(s) == SplitDot(s, << >>)

NonEmpty(p) == p /= << >>

(***************************************************************************)
(* JSON values and the Python operations the adapters apply to them        *)
(***************************************************************************)

JNull == [t |-> "null", v |-> 0]
JNum(n) == [t |-> "num", v |-> n]
JStr(s) == [t |-> "str", v |-> s]
JList(l) == [t |-> "list", v |-> l]
JObj(f) == [t |-> "obj", v |-> f]

EmptyDict == JObj([k \in {} |-> JNull])

IsDict(x) == x.t = "obj"

\* dict.get(key) and dict.get(key, default); a JSON null loads as None.
Get(d, key) == IF key \in DOMAIN d.v THEN d.v[key] ELSE JNull

GetOr(d, key, default) == IF key \in DOMAIN d.v THEN d.v[key] ELSE default

\* Truth value of a loaded JSON value.
Truthy(x) ==
    CASE x.t = "null" -> FALSE
      [] x.t = "num" -> x.v /= 0
      [] x.t = "str" -> x.v /= << >>
      [] x.t = "list" -> x.v /= << >>
      [] x.t = "obj" -> DOMAIN x.v /= {}

\* a or b
Or(a, b) == IF Truthy(a) THEN a ELSE b

\* str(x) for the values that reach it: strings and one-digit numbers.
Str(x) == IF x.t = "str" THEN x.v ELSE << Alphabet[Ord("0") + x.v] >>

\* "for item in x": None and numbers are not iterable (TypeError); a string
\* yields its characters and a dict its keys, none of which is a dict.
Iterable(x) == x.t \in {"list", "str", "obj"}

DictItems(x) == IF x.t = "list" THEN SelectSeq(x.v, IsDict) ELSE << >>

(***************************************************************************)
(* Process output and _safe_json_load                                      *)
(***************************************************************************)

Ws == [k |-> "ws", v |-> JNull]
Word == [k |-> "word", v |-> JNull]
LBrace == [k |-> "lbrace", v |-> JNull]
RBrace == [k |-> "rbrace", v |-> JNull]
Json(x) == [k |-> "json", v |-> x]

IsWs(tok) == tok.k = "ws"
NotWs(tok) == tok.k /= "ws"

RECURSIVE OutLStrip(_)
OutLStrip(o) == IF o /= << >> /\ IsWs(Head(o)) THEN OutLStrip(Tail(o)) ELSE o

RECURSIVE OutRStrip(_)
OutRStrip(o) ==
    IF o /= << >> /\ IsWs(o[Len(o)]) THEN OutRStrip(SubSeq(o, 1, Len(o) - 1)) ELSE o

\* str.strip() on process output
OutStrip(o) == OutRStrip(OutLStrip(o))

\* The text of x contains a brace.
RECURSIVE HasBrace(_)
HasBrace(x) ==
    CASE x.t = "obj" -> TRUE
      [] x.t = "list" -> \E i \in 1..Len(x.v) : HasBrace(x.v[i])
      [] OTHER -> FALSE

Failed == [ok |-> FALSE, val |-> JNull]
Loaded(x) == [ok |-> TRUE, val |-> x]

\* json.loads: succeeds on exactly one JSON value, whitespace around it allowed.
Loads(o) ==
    LET body == SelectSeq(o, NotWs)
    IN IF Len(body) = 1 /\ body[1].k = "json" THEN Loaded(body[1].v)
       ELSE IF body = << LBrace, RBrace >> THEN Loaded(EmptyDict)
       ELSE Failed

\* json.loads of the text of x cut from its first "{" to its last "}".
RECURSIVE LoadsBraceSpan(_)
LoadsBraceSpan(x) ==
    IF x.t = "obj" THEN Loaded(x)
    ELSE LET braced == {i \in 1..Len(x.v) : HasBrace(x.v[i])}
         IN IF Cardinality(braced) = 1
            THEN LoadsBraceSpan(x.v[CHOOSE i \in braced : TRUE])
            ELSE Failed

OpensBrace(tok) == tok.k = "lbrace" \/ (tok.k = "json" /\ HasBrace(tok.v))
ClosesBrace(tok) == tok.k = "rbrace" \/ (tok.k = "json" /\ HasBrace(tok.v))

\* payload.find("{") and payload.rfind("}") as token positions, 0 for -1.
FindOpen(o) ==
    LET hits == {i \in 1..Len(o) : OpensBrace(o[i])}
    IN IF hits = {} THEN 0 ELSE CHOOSE i \in hits : \A j \in hits : i <= j

RFindClose(o) ==
    LET hits == {i \in 1..Len(o) : ClosesBrace(o[i])}
    IN IF hits = {} THEN 0 ELSE CHOOSE i \in hits : \A j \in hits : j <= i

\* json.loads(payload[start : end + 1])
LoadsSlice(o, start, end) ==
    IF start = end THEN LoadsBraceSpan(o[start].v)
    ELSE IF o[start].k = "lbrace" THEN Loads(SubSeq(o, start, end))
    ELSE Failed

\* Faulty variant: a loaded list is unwrapped to its first element.
AsDict_UnwrapList(res) ==
    IF res.ok /\ IsDict(res.val) THEN res.val
    ELSE IF res.ok /\ res.val.t = "list" /\ res.val.v /= << >> /\ IsDict(res.val.v[1])
    THEN res.val.v[1]
    ELSE EmptyDict

\* loaded if isinstance(loaded, dict) else {}; {} when json.loads failed
AsDict(res) == IF res.ok /\ IsDict(res.val) THEN res.val ELSE EmptyDict

_safe_json_load(raw) ==
    LET payload == OutStrip(raw)
        first == Loads(payload)
        start == FindOpen(payload)
        end == RFindClose(payload)
    IN IF payload = << >> THEN EmptyDict
       ELSE IF first.ok THEN AsDict(first)
       ELSE IF start = 0 \/ end = 0 \/ end < start THEN EmptyDict
       ELSE AsDict(LoadsSlice(payload, start, end))

(***************************************************************************)
(* Severity and category normalisation                                     *)
(***************************************************************************)

\* Faulty variant: the token is compared as written, without lower-casing.
_normalize_severity_CaseSensitive(value) ==
    LET text == Strip(Str(Or(value, JStr(<< >>))))
    IN IF text \in { <<"c","r","i","t","i","c","a","l">>,
                     <<"v","e","r","y","_","h","i","g","h">> } THEN "critical"
       ELSE IF text \in { <<"h","i","g","h">>, <<"e","r","r","o","r">> } THEN "high"
       ELSE IF text \in { <<"m","e","d","i","u","m">>,
                          <<"m","o","d","e","r","a","t","e">>,
                          <<"w","a","r","n","i","n","g">> } THEN "medium"
       ELSE "low"

_normalize_severity(value) ==
    LET text == Lower(Strip(Str(Or(value, JStr(<< >>)))))
    IN IF text \in { <<"c","r","i","t","i","c","a","l">>,
                     <<"v","e","r","y","_","h","i","g","h">> } THEN "critical"
       ELSE IF text \in { <<"h","i","g","h">>, <<"e","r","r","o","r">> } THEN "high"
       ELSE IF text \in { <<"m","e","d","i","u","m">>,
                          <<"m","o","d","e","r","a","t","e">>,
                          <<"w","a","r","n","i","n","g">> } THEN "medium"
       ELSE "low"

IdentityWords ==
    { <<"r","o","l","e">>, <<"i","d","e","n","t","i","t","y">>, <<"r","b","a","c">>,
      <<"i","a","m">>, <<"p","r","i","n","c","i","p","a","l">> }

NetworkWords ==
    { <<"n","s","g">>, <<"n","e","t","w","o","r","k">>, <<"i","n","b","o","u","n","d">>,
      <<"e","g","r","e","s","s">>, <<"f","i","r","e","w","a","l","l">>,
      <<"p","u","b","l","i","c"," ","i","p">> }

StorageWords ==
    { <<"s","t","o","r","a","g","e">>, <<"b","l","o","b">>, <<"s","3">>,
      <<"b","u","c","k","e","t">> }

ComputeWords ==
    { <<"v","m">>, <<"c","o","m","p","u","t","e">>,
      <<"c","o","n","t","a","i","n","e","r">>,
      <<"k","u","b","e","r","n","e","t","e","s">>, <<"d","i","s","k">> }

MonitoringWords ==
    { <<"m","o","n","i","t","o","r">>, <<"l","o","g">>,
      <<"d","i","a","g","n","o","s","t","i","c">>, <<"a","l","e","r","t">> }

AnyIn(words, key) == \E x \in words : Contains(key, x)

\* Faulty variant: the storage keywords are tried before the network keywords.
_detect_category_StorageFirst(resource_type, issue) ==
    LET key == Lower(resource_type \o << " " >> \o issue)
    IN IF AnyIn(IdentityWords, key) THEN "identity"
       ELSE IF AnyIn(StorageWords, key) THEN "storage"
       ELSE IF AnyIn(NetworkWords, key) THEN "network"
       ELSE IF AnyIn(ComputeWords, key) THEN "compute"
       ELSE IF AnyIn(MonitoringWords, key) THEN "monitoring"
       ELSE "general"

_detect_category(resource_type, issue) ==
    LET key == Lower(resource_type \o << " " >> \o issue)
    IN IF AnyIn(IdentityWords, key) THEN "identity"
       ELSE IF AnyIn(NetworkWords, key) THEN "network"
       ELSE IF AnyIn(StorageWords, key) THEN "storage"
       ELSE IF AnyIn(ComputeWords, key) THEN "compute"
       ELSE IF AnyIn(MonitoringWords, key) THEN "monitoring"
       ELSE "general"

(***************************************************************************)
(* _ResourceMatcher                                                        *)
(***************************************************************************)

\* f"{r.resource_type}.{r.resource_name}"
RidOf(r) == r.resource_type \o << "." >> \o r.resource_name

\* Faulty variant: a key that is already present keeps its first value.
DictSet_FirstWins(d, key, val) ==
    IF \E i \in 1..Len(d) : d[i].key = key
    THEN d
    ELSE Append(d, [key |-> key, val |-> val])

\* d[key] = val on an insertion-ordered dict kept as a sequence of entries.
DictSet(d, key, val) ==
    IF \E i \in 1..Len(d) : d[i].key = key
    THEN [i \in 1..Len(d) |-> IF d[i].key = key THEN [key |-> key, val |-> val] ELSE d[i]]
    ELSE Append(d, [key |-> key, val |-> val])

RECURSIVE DictFrom(_, _)
DictFrom(d, rs) ==
    IF rs = << >> THEN d ELSE DictFrom(DictSet(d, RidOf(Head(rs)), Head(rs)), Tail(rs))

\* self.by_id
ById(rs) == DictFrom(<< >>, rs)

\* self.by_name.get(name, [])
ByName(rs, name) ==
    LET Named(r) == r.resource_name = name
    IN SelectSeq(rs, Named)

FromRecord(rid, r) ==
    [rid |-> rid, rtype |-> r.resource_type, rname |-> r.resource_name, file |-> r.file]

UNKNOWN_RESOURCE == <<"u","n","k","n","o","w","n","_","r","e","s","o","u","r","c","e">>
UNMAPPED == <<"u","n","m","a","p","p","e","d">>

\* Faulty variant: a suffix match returns the reference as it was given.
resolve_SuffixKeepsRaw(rs, raw_resource, raw_file) ==
    LET raw == Strip(raw_resource)
        file_hint == Strip(raw_file)
        by_id == ById(rs)
        exact == {i \in 1..Len(by_id) : by_id[i].key = raw}
        suffix == {i \in 1..Len(by_id) : EndsWith(raw, by_id[i].key)}
        first == CHOOSE i \in suffix : \A j \in suffix : i <= j
        parts == SelectSeq(Split(raw), NonEmpty)
        maybe_name == parts[Len(parts)]
        guessed_type == IF HasDot(raw) THEN Split(raw)[1] ELSE UNKNOWN_RESOURCE
        guessed_name == IF raw /= << >> THEN Split(raw)[Len(Split(raw))] ELSE UNMAPPED
    IN IF exact /= {}
       THEN FromRecord(raw, by_id[CHOOSE i \in exact : TRUE].val)
       ELSE IF raw /= << >> /\ suffix /= {}
       THEN FromRecord(raw, by_id[first].val)
       ELSE IF /\ raw /= << >>
               /\ HasDot(raw)
               /\ Len(parts) >= 2
               /\ Len(ByName(rs, maybe_name)) = 1
       THEN FromRecord(RidOf(ByName(rs, maybe_name)[1]), ByName(rs, maybe_name)[1])
       ELSE IF raw /= << >> /\ Len(ByName(rs, raw)) = 1
       THEN FromRecord(RidOf(ByName(rs, raw)[1]), ByName(rs, raw)[1])
       ELSE [rid |-> IF raw /= << >> THEN raw
                     ELSE guessed_type \o << "." >> \o guessed_name,
             rtype |-> guessed_type, rname |-> guessed_name, file |-> file_hint]

\* Faulty variant: the fallback id is always put together from the guesses.
resolve_SynthesizedId(rs, raw_resource, raw_file) ==
    LET raw == Strip(raw_resource)
        file_hint == Strip(raw_file)
        by_id == ById(rs)
        exact == {i \in 1..Len(by_id) : by_id[i].key = raw}
        suffix == {i \in 1..Len(by_id) : EndsWith(raw, by_id[i].key)}
        first == CHOOSE i \in suffix : \A j \in suffix : i <= j
        parts == SelectSeq(Split(raw), NonEmpty)
        maybe_name == parts[Len(parts)]
        guessed_type == IF HasDot(raw) THEN Split(raw)[1] ELSE UNKNOWN_RESOURCE
        guessed_name == IF raw /= << >> THEN Split(raw)[Len(Split(raw))] ELSE UNMAPPED
    IN IF exact /= {}
       THEN FromRecord(raw, by_id[CHOOSE i \in exact : TRUE].val)
       ELSE IF raw /= << >> /\ suffix /= {}
       THEN FromRecord(by_id[first].key, by_id[first].val)
       ELSE IF /\ raw /= << >>
               /\ HasDot(raw)
               /\ Len(parts) >= 2
               /\ Len(ByName(rs, maybe_name)) = 1
       THEN FromRecord(RidOf(ByName(rs, maybe_name)[1]), ByName(rs, maybe_name)[1])
       ELSE IF raw /= << >> /\ Len(ByName(rs, raw)) = 1
       THEN FromRecord(RidOf(ByName(rs, raw)[1]), ByName(rs, raw)[1])
       ELSE [rid |-> guessed_type \o << "." >> \o guessed_name,
             rtype |-> guessed_type, rname |-> guessed_name, file |-> file_hint]

\* Faulty variant: the suffix rule is tried before the exact rule.
resolve_SuffixFirst(rs, raw_resource, raw_file) ==
    LET raw == Strip(raw_resource)
        file_hint == Strip(raw_file)
        by_id == ById(rs)
        exact == {i \in 1..Len(by_id) : by_id[i].key = raw}
        suffix == {i \in 1..Len(by_id) : EndsWith(raw, by_id[i].key)}
        first == CHOOSE i \in suffix : \A j \in suffix : i <= j
        parts == SelectSeq(Split(raw), NonEmpty)
        maybe_name == parts[Len(parts)]
        guessed_type == IF HasDot(raw) THEN Split(raw)[1] ELSE UNKNOWN_RESOURCE
        guessed_name == IF raw /= << >> THEN Split(raw)[Len(Split(raw))] ELSE UNMAPPED
    IN IF raw /= << >> /\ suffix /= {}
       THEN FromRecord(by_id[first].key, by_id[first].val)
       ELSE IF exact /= {}
       THEN FromRecord(raw, by_id[CHOOSE i \in exact : TRUE].val)
       ELSE IF /\ raw /= << >>
               /\ HasDot(raw)
               /\ Len(parts) >= 2
               /\ Len(ByName(rs, maybe_name)) = 1
       THEN FromRecord(RidOf(ByName(rs, maybe_name)[1]), ByName(rs, maybe_name)[1])
       ELSE IF raw /= << >> /\ Len(ByName(rs, raw)) = 1
       THEN FromRecord(RidOf(ByName(rs, raw)[1]), ByName(rs, raw)[1])
       ELSE [rid |-> IF raw /= << >> THEN raw
                     ELSE guessed_type \o << "." >> \o guessed_name,
             rtype |-> guessed_type, rname |-> guessed_name, file |-> file_hint]

resolve(rs, raw_resource, raw_file) ==
    LET raw == Strip(raw_resource)
        file_hint == Strip(raw_file)
        by_id == ById(rs)
        exact == {i \in 1..Len(by_id) : by_id[i].key = raw}
        suffix == {i \in 1..Len(by_id) : EndsWith(raw, by_id[i].key)}
        first == CHOOSE i \in suffix : \A j \in suffix : i <= j
        parts == SelectSeq(Split(raw), NonEmpty)
        maybe_name == parts[Len(parts)]
        guessed_type == IF HasDot(raw) THEN Split(raw)[1] ELSE UNKNOWN_RESOURCE
        guessed_name == IF raw /= << >> THEN Split(raw)[Len(Split(raw))] ELSE UNMAPPED
    IN IF exact /= {}
       THEN FromRecord(raw, by_id[CHOOSE i \in exact : TRUE].val)
       ELSE IF raw /= << >> /\ suffix /= {}
       THEN FromRecord(by_id[first].key, by_id[first].val)
       ELSE IF /\ raw /= << >>
               /\ HasDot(raw)
               /\ Len(parts) >= 2
               /\ Len(ByName(rs, maybe_name)) = 1
       THEN FromRecord(RidOf(ByName(rs, maybe_name)[1]), ByName(rs, maybe_name)[1])
       ELSE IF raw /= << >> /\ Len(ByName(rs, raw)) = 1
       THEN FromRecord(RidOf(ByName(rs, raw)[1]), ByName(rs, raw)[1])
       ELSE [rid |-> IF raw /= << >> THEN raw
                     ELSE guessed_type \o << "." >> \o guessed_name,
             rtype |-> guessed_type, rname |-> guessed_name, file |-> file_hint]

(***************************************************************************)
(* The file system seen by _resolve_scan_dir                               *)
(***************************************************************************)

\* Directories /d and /e, each holding a file m; /l is a symbolic link to /d;
\* the working directory is /e.
FsDirs == { <<"/","d">>, <<"/","e">> }
FsFiles == { <<"/","d","/","m">>, <<"/","e","/","m">> }
FsLink == <<"/","l">>
FsLinkTarget == <<"/","d">>
Cwd == <<"/","e">>

\* Path.is_absolute()
IsAbsolute(p) == p /= << >> /\ Head(p) = "/"

StartsWithDir(p, dir) ==
    /\ Len(p) >= Len(dir)
    /\ SubSeq(p, 1, Len(dir)) = dir
    /\ (Len(p) = Len(dir) \/ p[Len(dir) + 1] = "/")

\* Path.resolve(): make absolute, follow symbolic links.
Resolve(p) ==
    LET abs == IF IsAbsolute(p) THEN p ELSE Cwd \o << "/" >> \o p
    IN IF StartsWithDir(abs, FsLink)
       THEN FsLinkTarget \o SubSeq(abs, Len(FsLink) + 1, Len(abs))
       ELSE abs

\* Path.exists(), Path.is_dir()
Exists(p) == Resolve(p) \in FsDirs \cup FsFiles
IsDir(p) == Resolve(p) \in FsDirs

\* Path.parent of an absolute path
Parent(p) ==
    LET slashes == {i \in 1..Len(p) : p[i] = "/"}
        last == CHOOSE i \in slashes : \A j \in slashes : j <= i
    IN IF last = 1 THEN << "/" >> ELSE SubSeq(p, 1, last - 1)

None == [some |-> FALSE, v |-> << >>]
Some(x) == [some |-> TRUE, v |-> x]

\* Faulty variant: an explicit directory that is not usable falls back to
\* inference from the records.
_resolve_scan_dir_FallBack(rs, dir) ==
    LET usable == {i \in 1..Len(rs) : IsAbsolute(rs[i].file) /\ Exists(rs[i].file)}
        parents == {Resolve(Parent(rs[i].file)) : i \in usable}
    IN IF dir.some /\ dir.v /= << >> /\ Exists(dir.v) /\ IsDir(dir.v)
       THEN Some(Resolve(dir.v))
       ELSE IF Cardinality(parents) = 1 THEN Some(CHOOSE d \in parents : TRUE)
       ELSE None

\* Faulty variant: a record whose file is relative or missing blocks inference.
_resolve_scan_dir_EveryRecord(rs, dir) ==
    LET usable == {i \in 1..Len(rs) : IsAbsolute(rs[i].file) /\ Exists(rs[i].file)}
        parents == {Resolve(Parent(rs[i].file)) : i \in usable}
    IN IF dir.some /\ dir.v /= << >>
       THEN IF Exists(dir.v) /\ IsDir(dir.v) THEN Some(Resolve(dir.v)) ELSE None
       ELSE IF Cardinality(parents) = 1 /\ Cardinality(usable) = Len(rs)
       THEN Some(CHOOSE d \in parents : TRUE)
       ELSE None

_resolve_scan_dir(rs, dir) ==
    LET usable == {i \in 1..Len(rs) : IsAbsolute(rs[i].file) /\ Exists(rs[i].file)}
        parents == {Resolve(Parent(rs[i].file)) : i \in usable}
    IN IF dir.some /\ dir.v /= << >>
       THEN IF Exists(dir.v) /\ IsDir(dir.v) THEN Some(Resolve(dir.v)) ELSE None
       ELSE IF Cardinality(parents) = 1 THEN Some(CHOOSE d \in parents : TRUE)
       ELSE None

(***************************************************************************)
(* Scanner processes and _run_command                                      *)
(***************************************************************************)

\* What the environment does when an adapter looks up and runs its scanner:
\* which: shutil.which finds the executable; proc: how subprocess.run ends.
Behaviour(which, proc, code, stdout, stderr) ==
    [which |-> which, proc |-> proc, code |-> code, stdout |-> stdout, stderr |-> stderr]

NotFoundCode == 127
TimeoutCode == 124

\* f"Command not found: ..." and f"Command timed out after ...": one token each.
NotFoundText == << [k |-> "command_not_found", v |-> JNull] >>
TimedOutText == << [k |-> "command_timed_out", v |-> JNull] >>

\* Faulty variant: a timeout is reported with the generic failure code 1.
_run_command_TimeoutAsOne(b) ==
    CASE b.proc = "notfound" ->
           [code |-> NotFoundCode, stdout |-> << >>, stderr |-> NotFoundText]
      [] b.proc = "timeout" ->
           [code |-> 1, stdout |-> << >>, stderr |-> TimedOutText]
      [] OTHER ->
           [code |-> b.code, stdout |-> OutStrip(b.stdout), stderr |-> OutStrip(b.stderr)]

_run_command(b) ==
    CASE b.proc = "notfound" ->
           [code |-> NotFoundCode, stdout |-> << >>, stderr |-> NotFoundText]
      [] b.proc = "timeout" ->
           [code |-> TimeoutCode, stdout |-> << >>, stderr |-> TimedOutText]
      [] OTHER ->
           [code |-> b.code, stdout |-> OutStrip(b.stdout), stderr |-> OutStrip(b.stderr)]

(***************************************************************************)
(* The adapters                                                            *)
(***************************************************************************)

NoError == [kind |-> "none", scanner |-> "", code |-> 0, text |-> << >>]

\* Faulty variant: every adapter reports the message of the checkov adapter.
NotOnPath_CopyPaste(name) ==
    [kind |-> "not_on_path", scanner |-> "checkov", code |-> 0, text |-> << >>]

\* "<name> executable not found on PATH."
NotOnPath(name) == [kind |-> "not_on_path", scanner |-> name, code |-> 0, text |-> << >>]

\* Faulty variant: a failed run leaves no message behind.
FailedExit_Silent(name, run) == NoError

\* f"<name> failed (exit {code}): {stderr or stdout}"
FailedExit(name, run) ==
    [kind |-> "failed", scanner |-> name, code |-> run.code,
     text |-> IF run.stderr /= << >> THEN run.stderr ELSE run.stdout]

\* What an adapter call leaves behind: a returned _ScannerResult or an exception
\* (raised), and whether the call reached subprocess.run (spawned).
_ScannerResult(findings, status, error) ==
    [raised |-> FALSE, spawned |-> FALSE, findings |-> findings, status |-> status,
     error |-> error]

Raises ==
    [raised |-> TRUE, spawned |-> FALSE, findings |-> << >>, status |-> "raised",
     error |-> NoError]

NotRun ==
    [raised |-> FALSE, spawned |-> FALSE, findings |-> << >>, status |-> "not_run",
     error |-> NoError]

\* The adapter went through self._run_command before ending as r.
Spawned(r) == [r EXCEPT !.spawned = TRUE]

POLICY_VIOLATION == <<"P","o","l","i","c","y"," ","v","i","o","l","a","t","i","o","n">>
REVIEW == 
    <<"R","e","v","i","e","w"," ","a","n","d"," ","r","e","m","e","d","i","a","t","e"," ","t","h","i","s"," ","p","o","l","i","c","y"," ","v","i","o","l","a","t","i","o","n",".">>
CHECKOV_UNKNOWN == <<"C","H","E","C","K","O","V",".","U","N","K","N","O","W","N">>
TFSEC_UNKNOWN == <<"T","F","S","E","C",".","U","N","K","N","O","W","N">>
TERRASCAN_UNKNOWN == <<"T","E","R","R","A","S","C","A","N",".","U","N","K","N","O","W","N">>

SecurityFinding(found, item, source, issue, recommendation, rule_id) ==
    [resource |-> found.rid,
     resource_type |-> found.rtype,
     resource_name |-> found.rname,
     file |-> found.file,
     severity |-> _normalize_severity(Get(item, "severity")),
     category |-> _detect_category(found.rtype, issue),
     source_library |-> source,
     issue |-> issue,
     recommendation |-> recommendation,
     rule_id |-> rule_id,
     compliance |-> << >>]

CheckovFinding(rs, item) ==
    SecurityFinding(
        resolve(rs, Str(Or(Get(item, "resource"), JStr(<< >>))),
                    Str(Or(Get(item, "file_path"), JStr(<< >>)))),
        item, "checkov",
        Str(Or(Or(Get(item, "check_name"), Get(item, "check_id")), JStr(POLICY_VIOLATION))),
        Str(Or(Or(Get(item, "guideline"), Get(item, "details")), JStr(REVIEW))),
        Str(Or(Get(item, "check_id"), JStr(CHECKOV_UNKNOWN))))

TfsecFinding(rs, item) ==
    LET location == GetOr(item, "location", EmptyDict)
        raw_file == IF IsDict(location)
                    THEN Str(Or(Get(location, "filename"), JStr(<< >>)))
                    ELSE << >>
    IN SecurityFinding(
        resolve(rs, Str(Or(Get(item, "resource"), JStr(<< >>))), raw_file),
        item, "tfsec",
        Str(Or(Or(Get(item, "description"), Get(item, "rule_description")),
               JStr(POLICY_VIOLATION))),
        Str(Or(Get(item, "resolution"), JStr(REVIEW))),
        Str(Or(Or(Get(item, "long_id"), Get(item, "rule_id")), JStr(TFSEC_UNKNOWN))))

TerrascanFinding(rs, item) ==
    SecurityFinding(
        resolve(rs, Str(Or(Get(item, "resource_name"), JStr(<< >>))),
                    Str(Or(Get(item, "file"), JStr(<< >>)))),
        item, "terrascan",
        Str(Or(Or(Get(item, "description"), Get(item, "rule_name")), JStr(POLICY_VIOLATION))),
        Str(Or(Get(item, "resolution"), JStr(REVIEW))),
        Str(Or(Or(Get(item, "rule_id"), Get(item, "rule_name")), JStr(TERRASCAN_UNKNOWN))))

CheckovAllowed == {0, 1}
TfsecAllowed == {0, 1}
TerrascanAllowed == {0, 3}

_run_checkov(rs, b) ==
    LET run == _run_command(b)
        payload == _safe_json_load(run.stdout)
        results == GetOr(payload, "results", EmptyDict)
        failed == IF IsDict(results) THEN GetOr(results, "failed_checks", JList(<< >>))
                  ELSE JList(<< >>)
        items == DictItems(failed)
    IN IF ~b.which THEN _ScannerResult(<< >>, "unavailable", NotOnPath("checkov"))
       ELSE Spawned(
              IF run.code \notin CheckovAllowed
              THEN _ScannerResult(<< >>, "error", FailedExit("checkov", run))
              ELSE IF ~Iterable(failed) THEN Raises
              ELSE _ScannerResult([i \in 1..Len(items) |-> CheckovFinding(rs, items[i])],
                                  "ok", NoError))

_run_tfsec(rs, b) ==
    LET run == _run_command(b)
        payload == _safe_json_load(run.stdout)
        results == GetOr(payload, "results", JList(<< >>))
        items == DictItems(results)
    IN IF ~b.which THEN _ScannerResult(<< >>, "unavailable", NotOnPath("tfsec"))
       ELSE Spawned(
              IF run.code \notin TfsecAllowed
              THEN _ScannerResult(<< >>, "error", FailedExit("tfsec", run))
              ELSE IF ~Iterable(results) THEN Raises
              ELSE _ScannerResult([i \in 1..Len(items) |-> TfsecFinding(rs, items[i])],
                                  "ok", NoError))

_run_terrascan(rs, b) ==
    LET run == _run_command(b)
        payload == _safe_json_load(run.stdout)
        results == GetOr(payload, "results", EmptyDict)
        violations == IF IsDict(results) THEN GetOr(results, "violations", JList(<< >>))
                      ELSE JList(<< >>)
        items == DictItems(violations)
    IN IF ~b.which THEN _ScannerResult(<< >>, "unavailable", NotOnPath("terrascan"))
       ELSE Spawned(
              IF run.code \notin TerrascanAllowed
              THEN _ScannerResult(<< >>, "error", FailedExit("terrascan", run))
              ELSE IF ~Iterable(violations) THEN Raises
              ELSE _ScannerResult([i \in 1..Len(items) |-> TerrascanFinding(rs, items[i])],
                                  "ok", NoError))

(***************************************************************************)
(* SecurityAnalyzer.analyze: sorting, grouping, scoring                    *)
(***************************************************************************)

_SCANNERS == << "checkov", "tfsec", "terrascan" >>

_SEVERITY_WEIGHT == [low |-> 2, medium |-> 6, high |-> 12, critical |-> 20]

SeverityOrder == << "critical", "high", "medium", "low" >>

\* ["critical", "high", "medium", "low"].index(severity)
SeverityIndex(sev) == CHOOSE i \in 1..Len(SeverityOrder) : SeverityOrder[i] = sev

\* The characters of a scanner name, for comparing source_library values.
NameChars(name) ==
    CASE name = "checkov" -> <<"c","h","e","c","k","o","v">>
      [] name = "tfsec" -> <<"t","f","s","e","c">>
      [] name = "terrascan" -> <<"t","e","r","r","a","s","c","a","n">>

\* key(f) < key(g) for the sort key (severity index, source_library, resource)
KeyLess(f, g) ==
    \/ SeverityIndex(f.severity) < SeverityIndex(g.severity)
    \/ /\ f.severity = g.severity
       /\ \/ StrLess(NameChars(f.source_library), NameChars(g.source_library))
          \/ /\ f.source_library = g.source_library
             /\ StrLess(f.resource, g.resource)

\* Faulty variant: an element goes before the elements whose key is equal.
InsertByKey_BeforeTies(sorted, f) ==
    LET notless == {i \in 1..Len(sorted) : ~KeyLess(sorted[i], f)}
        at == IF notless = {} THEN Len(sorted) + 1
              ELSE CHOOSE i \in notless : \A j \in notless : i <= j
    IN SubSeq(sorted, 1, at - 1) \o << f >> \o SubSeq(sorted, at, Len(sorted))

\* list.sort(key=...) is stable: an element goes before the first element
\* whose key is greater, after all those whose key is equal.
InsertByKey(sorted, f) ==
    LET greater == {i \in 1..Len(sorted) : KeyLess(f, sorted[i])}
        at == IF greater = {} THEN Len(sorted) + 1
              ELSE CHOOSE i \in greater : \A j \in greater : i <= j
    IN SubSeq(sorted, 1, at - 1) \o << f >> \o SubSeq(sorted, at, Len(sorted))

RECURSIVE SortInto(_, _)
SortInto(sorted, fs) ==
    IF fs = << >> THEN sorted ELSE SortInto(InsertByKey(sorted, Head(fs)), Tail(fs))

SortFindings(fs) == SortInto(<< >>, fs)

\* Faulty variant: a resource's group is overwritten by each of its findings.
RECURSIVE GroupInto_KeepsLast(_, _)
GroupInto_KeepsLast(d, fs) ==
    IF fs = << >> THEN d
    ELSE GroupInto_KeepsLast(DictSet(d, Head(fs).resource, << Head(fs) >>), Tail(fs))

\* findings_by_resource[finding.resource].append(finding), in list order
RECURSIVE GroupInto(_, _)
GroupInto(d, fs) ==
    IF fs = << >> THEN d
    ELSE LET f == Head(fs)
             at == {i \in 1..Len(d) : d[i].key = f.resource}
             old == IF at = {} THEN << >> ELSE d[CHOOSE i \in at : TRUE].val
         IN GroupInto(DictSet(d, f.resource, Append(old, f)), Tail(fs))

GroupByResource(fs) == GroupInto(<< >>, fs)

CountSeverity(fs, sev) == Cardinality({i \in 1..Len(fs) : fs[i].severity = sev})

SeverityCounts(fs) ==
    [critical |-> CountSeverity(fs, "critical"), high |-> CountSeverity(fs, "high"),
     medium |-> CountSeverity(fs, "medium"), low |-> CountSeverity(fs, "low")]

Max(a, b) == IF a >= b THEN a ELSE b
Min(a, b) == IF a <= b THEN a ELSE b

Penalty(counts) ==
    _SEVERITY_WEIGHT.critical * counts.critical + _SEVERITY_WEIGHT.high * counts.high
    + _SEVERITY_WEIGHT.medium * counts.medium + _SEVERITY_WEIGHT.low * counts.low

\* Faulty variant: the score is not floored at 0.
_calculate_score_NoFloor(severity_counts) == Min(100, 100 - Penalty(severity_counts))

_calculate_score(severity_counts) == Max(0, Min(100, 100 - Penalty(severity_counts)))

\* "Scan directory was not provided or could not be inferred; ..."
SkippedNote == [kind |-> "skipped_note", scanner |-> "", code |-> 0, text |-> << >>]

\* Faulty variant of the merge loop: it stops at the first result that carries
\* an error, so the scanners after a failed one are dropped.
RECURSIVE Merge_StopAtError(_, _)
Merge_StopAtError(acc, pairs) ==
    IF pairs = << >> THEN acc
    ELSE LET name == Head(pairs).name
             result == Head(pairs).result
         IN IF result.error /= NoError
            THEN [status |-> [acc.status EXCEPT ![name] = result.status],
                  findings |-> acc.findings,
                  errors |-> Append(acc.errors, result.error)]
            ELSE Merge_StopAtError(
                     [status |-> [acc.status EXCEPT ![name] = result.status],
                      findings |-> acc.findings \o result.findings,
                      errors |-> acc.errors],
                     Tail(pairs))

\* The merge loop of analyze over (name, result) pairs.
RECURSIVE Merge(_, _)
Merge(acc, pairs) ==
    IF pairs = << >> THEN acc
    ELSE LET name == Head(pairs).name
             result == Head(pairs).result
         IN Merge([status |-> [acc.status EXCEPT ![name] = result.status],
                   findings |-> acc.findings \o result.findings,
                   errors |-> IF result.error /= NoError
                              THEN Append(acc.errors, result.error)
                              ELSE acc.errors],
                  Tail(pairs))

\* The f-string summary, as the values it interpolates.
Summary(fs, status, errors) ==
    [count |-> Len(fs),
     status |-> << status["checkov"], status["tfsec"], status["terrascan"] >>,
     notes |-> errors]

SecurityAnalysisResponse(fs, status, errors) ==
    [findings_count |-> Len(fs),
     findings |-> fs,
     findings_by_resource |-> GroupByResource(fs),
     score |-> [score |-> _calculate_score(SeverityCounts(fs)),
                by_severity |-> SeverityCounts(fs)],
     scanner_status |-> status,
     scanner_errors |-> errors,
     summary |-> Summary(fs, status, errors)]

(***************************************************************************)
(* Inputs: resource lists, scan directories, scanner behaviours            *)
(***************************************************************************)

MaxItems == 2

ResourceRecord(file, resource_type, resource_name) ==
    [file |-> file, resource_type |-> resource_type, resource_name |-> resource_name]

S3 == <<"s","3">>
VM == <<"v","m">>
NameA == <<"a">>
NameB == <<"b">>
FileDM == <<"/","d","/","m">>
FileEM == <<"/","e","/","m">>
FileLM == <<"/","l","/","m">>
FileDX == <<"/","d","/","x">>
FileRel == <<"m">>

\* Resource lists as the parser hands them over.
ResourceLists ==
    { << >>,
      << ResourceRecord(FileRel, S3, NameA) >>,
      << ResourceRecord(FileDM, S3, NameA), ResourceRecord(FileDM, VM, NameB) >>,
      << ResourceRecord(FileDM, S3, NameA), ResourceRecord(FileEM, VM, NameB) >>,
      << ResourceRecord(FileDM, S3, NameA), ResourceRecord(FileRel, VM, NameB) >>,
      << ResourceRecord(FileDM, S3, NameA), ResourceRecord(FileDX, VM, NameA) >>,
      << ResourceRecord(FileLM, S3, NameA), ResourceRecord(FileDM, VM, NameB) >>,
      << ResourceRecord(FileDM, S3, NameA), ResourceRecord(FileEM, S3, NameA) >> }

\* Explicit scan directories that are a file, missing, or relative to a file.
BadDirs == { Some(FileDM), Some(<<"/","x">>), Some(FileRel) }

\* The (resources, scan_dir) pairs analyze is called with.
Calls ==
    ({None} \X ResourceLists)
    \cup ({Some(<< >>)}
          \X { << ResourceRecord(FileDM, S3, NameA), ResourceRecord(FileDM, VM, NameB) >>,
               << ResourceRecord(FileDM, S3, NameA), ResourceRecord(FileEM, VM, NameB) >> })
    \cup ({Some(<<"/","d">>)}
          \X { << ResourceRecord(FileDM, S3, NameA), ResourceRecord(FileEM, S3, NameA) >> })
    \cup (BadDirs
          \X { << ResourceRecord(FileDM, S3, NameA), ResourceRecord(FileDM, VM, NameB) >> })

\* Result items as each scanner writes them.
CheckovItems ==
    { JObj([resource |-> JStr(<<"s","3",".","a">>), severity |-> JStr(<<"C","R","I","T","I","C","A","L">>), check_id |-> JStr(<<"r","1">>),
            check_name |-> JStr(<<"o","p","e","n"," ","i","n","g","r","e","s","s">>), details |-> JStr(<<"f","i","x">>), file_path |-> JStr(<<"/","m">>)]),
      JObj([resource |-> JStr(<<"s","3",".","a">>), severity |-> JStr(<<" ","c","r","i","t","i","c","a","l"," ">>), check_id |-> JStr(<<"r","2">>),
            guideline |-> JStr(<<"f","i","x">>)]) }

TfsecItems ==
    { JObj([resource |-> JStr(<<"b">>), severity |-> JStr(<<"v","e","r","y","_","h","i","g","h">>), long_id |-> JStr(<<"r","3">>),
            description |-> JStr(<<"l","o","g">>), resolution |-> JStr(<<"f","i","x">>),
            location |-> JObj([filename |-> JStr(<<" ","/","m"," ">>)])]),
      JObj([severity |-> JStr(<<"c","r","i","t","i","c","a","l">>), rule_id |-> JStr(<<"r","1">>), rule_description |-> JStr(<<"l","o","g">>),
            resolution |-> JStr(<<"f","i","x">>), location |-> JStr(<<"/","m">>)]) }

TerrascanItems ==
    { JObj([resource_name |-> JStr(<<"s","3",".","a">>), severity |-> JStr(<<"H","I","G","H">>), rule_name |-> JStr(<<"r","1">>),
            resolution |-> JStr(<<"f","i","x">>), file |-> JStr(<<"/","m">>)]),
      JObj([resource_name |-> JStr(<<"x",".","v","m",".","b">>), severity |-> JStr(<<"W","A","R","N","I","N","G">>), rule_id |-> JStr(<<"r","2">>),
            description |-> JStr(<<"l","o","g">>), resolution |-> JStr(<<"f","i","x">>)]) }

Items(name) ==
    CASE name = "checkov" -> CheckovItems
      [] name = "tfsec" -> TfsecItems
      [] name = "terrascan" -> TerrascanItems

ListsOf(items) == UNION {[1..n -> items] : n \in 0..MaxItems}

\* The JSON document a scanner prints for a list of result items.
Document(name, list) ==
    CASE name = "checkov" -> JObj([results |-> JObj([failed_checks |-> list])])
      [] name = "tfsec" -> JObj([results |-> list])
      [] name = "terrascan" -> JObj([results |-> JObj([violations |-> list])])

OneItem(name) == JList(<< CHOOSE item \in Items(name) : "severity" \in DOMAIN item.v >>)

Sample(name) == Document(name, OneItem(name))

\* Documents of another shape than the adapter expects.
OddDocuments(name) ==
    { EmptyDict,
      JObj([results |-> JNull]),
      JObj([results |-> JNum(3)]),
      JObj([results |-> JStr(<<"o","k">>)]),
      JObj([results |-> EmptyDict]),
      JObj([results |-> JObj([failed_checks |-> JNull, violations |-> JNull])]),
      JObj([results |-> JObj([failed_checks |-> JNum(3), violations |-> JNum(3)])]),
      JObj([results |-> JObj([failed_checks |-> EmptyDict, violations |-> EmptyDict])]),
      Document(name, JList(<< JNum(3), EmptyDict >> \o OneItem(name).v)),
      Document(IF name = "tfsec" THEN "checkov" ELSE "tfsec", OneItem(name)) }

\* Output that is not one clean JSON object.
NoisyOutputs(name) ==
    { << >>,
      << Ws >>,
      << Word >>,
      << Json(JNum(3)) >>,
      << Json(JList(<< >>)) >>,
      << Json(JList(<< Sample(name) >>)) >>,
      << Word, Json(JList(<< Sample(name) >>)) >>,
      << Word, Json(JList(<< Sample(name), Sample(name) >>)) >>,
      << Ws, Json(Sample(name)), Ws >>,
      << Word, Json(Sample(name)), Ws, Word >>,
      << Json(Sample(name)), Json(Sample(name)) >>,
      << LBrace, Json(Sample(name)), RBrace >>,
      << Word, LBrace, Ws, RBrace >>,
      << RBrace, Word, LBrace >>,
      << LBrace, Word >> }

Outputs(name) ==
    {<< Json(Document(name, JList(l))) >> : l \in ListsOf(Items(name))}
    \cup {<< Json(doc) >> : doc \in OddDocuments(name)}
    \cup NoisyOutputs(name)

ExitCodes == {0, 1, 2, 3}

Behaviours(name) ==
    { Behaviour(FALSE, "exit", 0, << >>, << >>),
      Behaviour(TRUE, "notfound", 0, << >>, << >>),
      Behaviour(TRUE, "timeout", 0, << >>, << >>) }
    \cup { Behaviour(TRUE, "exit", code, out, err) :
             code \in ExitCodes,
             out \in { << Json(Sample(name)), Ws >> },
             err \in { << Ws >>, << Word, Ws >> } }
    \cup { Behaviour(TRUE, "exit", 0, out, << >>) : out \in Outputs(name) }

(***************************************************************************)
(* One call of SecurityAnalyzer.analyze                                    *)
(***************************************************************************)

VARIABLES
    resources,          \* argument: the resource records
    scan_dir,           \* argument: the scan directory, or None
    pc,                 \* where the call is
    resolved_scan_dir,  \* local of analyze
    scanner_status,     \* local of analyze
    scanner_errors,     \* local of analyze
    findings,           \* local of analyze
    checkov,            \* local of analyze: the _ScannerResult of _run_checkov
    tfsec,              \* local of analyze
    terrascan,          \* local of analyze
    invoked,            \* what the environment did in the scanner run just made
    response,           \* the value analyze returns
    round,              \* repeated analysis: which run this is
    replay,             \* repeated analysis: what each scanner did in the first run
    previous,           \* repeated analysis: the response of the first run
    raw_resource,       \* argument of _ResourceMatcher.resolve
    raw_file,           \* argument of _ResourceMatcher.resolve
    resolved,           \* the tuple resolve returns
    value,              \* argument of _normalize_severity
    severity,           \* the value _normalize_severity returns
    resource_type,      \* argument of _detect_category
    issue,              \* argument of _detect_category
    category,           \* the value _detect_category returns
    target,             \* cli: the path given to the scan command
    fail_on,            \* cli: the --fail-on threshold
    out_json,           \* cli: where --out-json (or --out-md) points
    exit_code           \* cli: the status the scan command ends with

analyze_vars ==
    << resources, scan_dir, pc, resolved_scan_dir, scanner_status, scanner_errors,
       findings, checkov, tfsec, terrascan, invoked, response >>

rerun_vars == << round, replay, previous >>

matcher_vars == << raw_resource, raw_file, resolved >>

normalizer_vars == << value, severity, resource_type, issue, category >>

cli_vars == << target, fail_on, out_json, exit_code >>

vars == << analyze_vars, rerun_vars, matcher_vars, normalizer_vars, cli_vars >>

NoInvocation == [name |-> "none", b |-> Behaviour(FALSE, "none", 0, << >>, << >>)]

\* scanner_status = {name: "skipped" for name in _SCANNERS}
AllSkipped == [n \in {_SCANNERS[i] : i \in 1..Len(_SCANNERS)} |-> "skipped"]

NoResponse == SecurityAnalysisResponse(<< >>, AllSkipped, << >>)

\* The locals of analyze when the call is entered.
AnalyzeEntry ==
    /\ resolved_scan_dir = None
    /\ scanner_status = AllSkipped
    /\ scanner_errors = << >>
    /\ findings = << >>
    /\ checkov = NotRun
    /\ tfsec = NotRun
    /\ terrascan = NotRun
    /\ invoked = NoInvocation
    /\ response = NoResponse

\* No analysis is going on.
AnalyzeIdle == resources = << >> /\ scan_dir = None /\ AnalyzeEntry

NoReplay == [n \in {_SCANNERS[i] : i \in 1..Len(_SCANNERS)} |-> NoInvocation.b]

Outcome(raised, resp) == [raised |-> raised, response |-> resp]

RerunIdle == round = 1 /\ replay = NoReplay /\ previous = Outcome(FALSE, NoResponse)

NotResolved == [rid |-> << >>, rtype |-> << >>, rname |-> << >>, file |-> << >>]

MatcherIdle == raw_resource = None /\ raw_file = None /\ resolved = NotResolved

NormalizerIdle ==
    /\ value = JNull
    /\ severity = "unset"
    /\ resource_type = << >>
    /\ issue = << >>
    /\ category = "unset"

NoTarget == [arg |-> << >>, suffix |-> "", content |-> "none"]

CliIdle == target = NoTarget /\ fail_on = "none" /\ out_json = "none" /\ exit_code = -1

Init ==
    /\ \E call \in Calls : scan_dir = call[1] /\ resources = call[2]
    /\ pc = "start"
    /\ AnalyzeEntry
    /\ RerunIdle
    /\ MatcherIdle
    /\ NormalizerIdle
    /\ CliIdle

\* analyze up to the branch on resolved_scan_dir
Start ==
    /\ pc = "start"
    /\ resolved_scan_dir' = _resolve_scan_dir(resources, scan_dir)
    /\ scanner_status' = AllSkipped
    /\ findings' = << >>
    /\ IF resolved_scan_dir' = None
       THEN /\ scanner_errors' = << SkippedNote >>
            /\ pc' = "aggregate"
       ELSE /\ scanner_errors' = << >>
            /\ pc' = "checkov"
    /\ UNCHANGED << resources, scan_dir, checkov, tfsec, terrascan, invoked, response >>

\* Faulty variant: the findings of checkov go into the merged list as soon as
\* its adapter returns, before tfsec and terrascan have run.
RunCheckov_MergesAtOnce ==
    /\ pc = "checkov"
    /\ \E b \in Behaviours("checkov") :
         /\ invoked' = [name |-> "checkov", b |-> b]
         /\ checkov' = _run_checkov(resources, b)
    /\ pc' = IF checkov'.raised THEN "raised" ELSE "tfsec"
    /\ findings' = findings \o checkov'.findings
    /\ UNCHANGED << resources, scan_dir, resolved_scan_dir, scanner_status,
                    scanner_errors, tfsec, terrascan, response >>

\* checkov = self._run_checkov(resolved_scan_dir, matcher)
RunCheckov ==
    /\ pc = "checkov"
    /\ \E b \in Behaviours("checkov") :
         /\ invoked' = [name |-> "checkov", b |-> b]
         /\ checkov' = _run_checkov(resources, b)
    /\ pc' = IF checkov'.raised THEN "raised" ELSE "tfsec"
    /\ UNCHANGED << resources, scan_dir, resolved_scan_dir, scanner_status,
                    scanner_errors, findings, tfsec, terrascan, response >>

\* tfsec = self._run_tfsec(resolved_scan_dir, matcher)
RunTfsec ==
    /\ pc = "tfsec"
    /\ \E b \in Behaviours("tfsec") :
         /\ invoked' = [name |-> "tfsec", b |-> b]
         /\ tfsec' = _run_tfsec(resources, b)
    /\ pc' = IF tfsec'.raised THEN "raised" ELSE "terrascan"
    /\ UNCHANGED << resources, scan_dir, resolved_scan_dir, scanner_status,
                    scanner_errors, findings, checkov, terrascan, response >>

\* terrascan = self._run_terrascan(resolved_scan_dir, matcher)
RunTerrascan ==
    /\ pc = "terrascan"
    /\ \E b \in Behaviours("terrascan") :
         /\ invoked' = [name |-> "terrascan", b |-> b]
         /\ terrascan' = _run_terrascan(resources, b)
    /\ pc' = IF terrascan'.raised THEN "raised" ELSE "aggregate"
    /\ UNCHANGED << resources, scan_dir, resolved_scan_dir, scanner_status,
                    scanner_errors, findings, checkov, tfsec, response >>

Reverse(seq) == [i \in 1..Len(seq) |-> seq[Len(seq) + 1 - i]]

\* Faulty variant: the sort is not stable, so findings whose keys are equal
\* come out in one of two orders, not always the same one.
Aggregate_TiesEitherWay ==
    /\ pc = "aggregate"
    /\ LET merged ==
             IF resolved_scan_dir = None
             THEN [status |-> scanner_status, findings |-> findings,
                   errors |-> scanner_errors]
             ELSE Merge([status |-> scanner_status, findings |-> findings,
                         errors |-> scanner_errors],
                        << [name |-> "checkov", result |-> checkov],
                           [name |-> "tfsec", result |-> tfsec],
                           [name |-> "terrascan", result |-> terrascan] >>)
       IN /\ scanner_status' = merged.status
          /\ scanner_errors' = merged.errors
          /\ findings' \in { SortFindings(merged.findings),
                              SortFindings(Reverse(merged.findings)) }
          /\ response' = SecurityAnalysisResponse(findings', scanner_status',
                                                  scanner_errors')
    /\ pc' = "done"
    /\ invoked' = NoInvocation
    /\ UNCHANGED << resources, scan_dir, resolved_scan_dir, checkov, tfsec, terrascan >>

\* analyze from the merge loop to the return
Aggregate ==
    /\ pc = "aggregate"
    /\ LET merged ==
             IF resolved_scan_dir = None
             THEN [status |-> scanner_status, findings |-> findings,
                   errors |-> scanner_errors]
             ELSE Merge([status |-> scanner_status, findings |-> findings,
                         errors |-> scanner_errors],
                        << [name |-> "checkov", result |-> checkov],
                           [name |-> "tfsec", result |-> tfsec],
                           [name |-> "terrascan", result |-> terrascan] >>)
       IN /\ scanner_status' = merged.status
          /\ scanner_errors' = merged.errors
          /\ findings' = SortFindings(merged.findings)
          /\ response' = SecurityAnalysisResponse(findings', scanner_status',
                                                  scanner_errors')
    /\ pc' = "done"
    /\ invoked' = NoInvocation
    /\ UNCHANGED << resources, scan_dir, resolved_scan_dir, checkov, tfsec, terrascan >>

\* What one call of analyze leaves alone.
outside == << rerun_vars, matcher_vars, normalizer_vars, cli_vars >>

Next ==
    \/ Start /\ UNCHANGED outside
    \/ RunCheckov /\ UNCHANGED outside
    \/ RunTfsec /\ UNCHANGED outside
    \/ RunTerrascan /\ UNCHANGED outside
    \/ Aggregate /\ UNCHANGED outside

Spec == Init /\ [][Next]_vars

(***************************************************************************)
(* analyze called twice on the same arguments, every scanner behaving in   *)
(* the second call as it did in the first                                  *)
(***************************************************************************)

TypeM == <<"m">>

\* vm.b declared twice, and m.b: both ids end the reference x.vm.b.
SuffixRivals ==
    << ResourceRecord(FileDM, VM, NameB), ResourceRecord(FileDM, TypeM, NameB),
       ResourceRecord(FileEM, VM, NameB) >>

RerunCalls ==
    { << None, << >> >>,
      << None, << ResourceRecord(FileDM, S3, NameA), ResourceRecord(FileDM, VM, NameB) >> >>,
      << Some(<<"/","d">>), SuffixRivals >> }

\* What a scanner does in the first call.
RerunBehaviours(name) ==
    { Behaviour(FALSE, "exit", 0, << >>, << >>),
      Behaviour(TRUE, "timeout", 0, << >>, << >>),
      Behaviour(TRUE, "exit", 2, << Json(Sample(name)), Ws >>, << Word, Ws >>),
      Behaviour(TRUE, "exit", 0, << Json(JObj([results |-> JNull])) >>, << >>),
      Behaviour(TRUE, "exit", 0, << Word, Json(Sample(name)), Ws, Word >>, << >>) }
    \cup { Behaviour(TRUE, "exit", 0, << Json(Document(name, JList(l))) >>, << >>) :
             l \in [1..MaxItems -> Items(name)] }

InitRerun ==
    /\ \E call \in RerunCalls : scan_dir = call[1] /\ resources = call[2]
    /\ pc = "start"
    /\ AnalyzeEntry
    /\ RerunIdle
    /\ MatcherIdle
    /\ NormalizerIdle
    /\ CliIdle

\* The scanner run just made is recorded in the first call and is the recorded
\* one in the second.
Replayed(name) ==
    /\ invoked'.b \in RerunBehaviours(name)
    /\ IF round = 1
       THEN replay' = [replay EXCEPT ![name] = invoked'.b]
       ELSE invoked'.b = replay[name] /\ UNCHANGED replay
    /\ UNCHANGED << round, previous, matcher_vars, normalizer_vars, cli_vars >>

RerunStart == Start /\ UNCHANGED outside

RerunCheckov == RunCheckov /\ Replayed("checkov")

RerunTfsec == RunTfsec /\ Replayed("tfsec")

RerunTerrascan == RunTerrascan /\ Replayed("terrascan")

RerunAggregate == Aggregate /\ UNCHANGED outside

\* The caller keeps the outcome of the first call and calls analyze again.
Again ==
    /\ pc \in {"done", "raised"}
    /\ round = 1
    /\ round' = 2
    /\ previous' = Outcome(pc = "raised", response)
    /\ pc' = "start"
    /\ resolved_scan_dir' = None
    /\ scanner_status' = AllSkipped
    /\ scanner_errors' = << >>
    /\ findings' = << >>
    /\ checkov' = NotRun
    /\ tfsec' = NotRun
    /\ terrascan' = NotRun
    /\ invoked' = NoInvocation
    /\ response' = NoResponse
    /\ UNCHANGED << resources, scan_dir, replay, matcher_vars, normalizer_vars, cli_vars >>

NextRerun ==
    \/ RerunStart
    \/ RerunCheckov
    \/ RerunTfsec
    \/ RerunTerrascan
    \/ RerunAggregate
    \/ Again

SpecRerun == InitRerun /\ [][NextRerun]_vars

(***************************************************************************)
(* _ResourceMatcher.resolve called on an index and a reference             *)
(***************************************************************************)

MaxRefLen == 5

TypeA == <<"a">>
TypeAA == <<"a","a">>
TypeB == <<"b">>

\* Indexes: empty, one record, two names, one name twice, two ids of which
\* one ends the other (in both orders), one id twice.
MatcherLists ==
    { << >>,
      << ResourceRecord(FileDM, TypeA, NameB) >>,
      << ResourceRecord(FileDM, TypeA, NameB), ResourceRecord(FileEM, TypeB, NameA) >>,
      << ResourceRecord(FileDM, TypeA, NameB), ResourceRecord(FileEM, TypeB, NameB) >>,
      << ResourceRecord(FileDM, TypeA, NameB), ResourceRecord(FileEM, TypeAA, NameB) >>,
      << ResourceRecord(FileDM, TypeAA, NameB), ResourceRecord(FileEM, TypeA, NameB) >>,
      << ResourceRecord(FileDM, TypeA, NameB), ResourceRecord(FileEM, TypeA, NameB) >> }

\* References as scanners write them: dotted paths, with or without blanks
\* around them.
DottedPaths == UNION {[1..n -> {"a", "b", "."}] : n \in 0..MaxRefLen}

References == DottedPaths \cup {<< " " >> \o r \o << " " >> : r \in DottedPaths}

FileHints == { None, Some(<<" ","/","m"," ">>) }

\* str(x or "") on an optional string
StrOrEmpty(x) == IF x.some THEN x.v ELSE << >>

InitResolve ==
    /\ resources \in MatcherLists
    /\ raw_resource \in {None} \cup {Some(r) : r \in References}
    /\ raw_file \in FileHints
    /\ resolved = NotResolved
    /\ pc = "resolve"
    /\ scan_dir = None
    /\ AnalyzeEntry
    /\ RerunIdle
    /\ NormalizerIdle
    /\ CliIdle

\* matcher = _ResourceMatcher(resources); matcher.resolve(raw_resource, raw_file)
CallResolve ==
    /\ pc = "resolve"
    /\ resolved' = resolve(resources, StrOrEmpty(raw_resource), StrOrEmpty(raw_file))
    /\ pc' = "resolved"
    /\ UNCHANGED << resources, scan_dir, resolved_scan_dir, scanner_status,
                    scanner_errors, findings, checkov, tfsec, terrascan, invoked,
                    response, raw_resource, raw_file, rerun_vars, normalizer_vars,
                    cli_vars >>

NextResolve == CallResolve

SpecResolve == InitResolve /\ [][NextResolve]_vars

(***************************************************************************)
(* _normalize_severity and _detect_category called as a finding is built   *)
(***************************************************************************)

UpperTable ==
    [c \in {Lowers[i] : i \in 1..Len(Lowers)} |->
        Uppers[CHOOSE i \in 1..Len(Lowers) : Lowers[i] = c]]

UpperChar(c) == IF c \in DOMAIN UpperTable THEN UpperTable[c] ELSE c

Upper(str) == [i \in 1..Len(str) |-> UpperChar(str[i])]

Capitalize(str) == [i \in 1..Len(str) |-> IF i = 1 THEN UpperChar(str[i]) ELSE str[i]]

\* Severity tokens as scanners write them, and some they do not.
SeverityTokens ==
    { <<"c","r","i","t","i","c","a","l">>,
      <<"v","e","r","y","_","h","i","g","h">>,
      <<"h","i","g","h">>,
      <<"e","r","r","o","r">>,
      <<"m","e","d","i","u","m">>,
      <<"m","o","d","e","r","a","t","e">>,
      <<"w","a","r","n","i","n","g">>,
      <<"l","o","w">>,
      <<"f","o","o">>,
      << >>,
      <<"v","e","r","y"," ","h","i","g","h">>,
      <<"h","i","g">>,
      <<"h","i","g","h","s">>,
      <<"i","n","f","o">> }

Spellings(token) ==
    { token, Upper(token), Capitalize(token), << " " >> \o token \o << " " >>,
      << " ", " " >> \o Upper(token) }

\* item.get("severity"): missing, a number, or a string
SeverityValues ==
    { JNull, JNum(0), JNum(3) }
    \cup {JStr(t) : t \in UNION {Spellings(token) : token \in SeverityTokens}}

AWS_SECURITY_GROUP == <<"a","w","s","_","s","e","c","u","r","i","t","y","_","g","r","o","u","p">>
OPEN_INGRESS == <<"o","p","e","n"," ","i","n","g","r","e","s","s">>

ResourceTypes ==
    { << >>, AWS_SECURITY_GROUP, <<"a","w","s","_","s","3","_","b","u","c","k","e","t">>,
      <<"a","w","s","_","i","a","m","_","r","o","l","e">>,
      <<"a","z","u","r","e","r","m","_","n","s","g">>,
      <<"v","m">>,
      <<"p","u","b","l","i","c">>,
      <<"x">> }

Issues ==
    { << >>, OPEN_INGRESS, <<"P","u","b","l","i","c"," ","I","P">>,
      <<"i","p">>,
      <<"l","o","g">>,
      <<"D","i","s","k"," ","a","l","e","r","t">>,
      <<"R","B","A","C">>,
      <<"e","g","r","e","s","s"," ","t","o"," ","s","3"," ","f","r","o","m"," ","v","m"," ","l","o","g">>,
      <<"U","n","e","n","c","r","y","p","t","e","d">> }

InitNormalize ==
    /\ value \in SeverityValues
    /\ resource_type \in ResourceTypes
    /\ issue \in Issues
    /\ severity = "unset"
    /\ category = "unset"
    /\ pc = "severity"
    /\ AnalyzeIdle
    /\ RerunIdle
    /\ MatcherIdle
    /\ CliIdle

\* severity=_normalize_severity(item.get("severity"))
CallNormalizeSeverity ==
    /\ pc = "severity"
    /\ severity' = _normalize_severity(value)
    /\ pc' = "category"
    /\ UNCHANGED << resources, scan_dir, resolved_scan_dir, scanner_status,
                    scanner_errors, findings, checkov, tfsec, terrascan, invoked,
                    response, value, resource_type, issue, category, rerun_vars,
                    matcher_vars, cli_vars >>

\* category=_detect_category(rtype, issue)
CallDetectCategory ==
    /\ pc = "category"
    /\ category' = _detect_category(resource_type, issue)
    /\ pc' = "normalized"
    /\ UNCHANGED << resources, scan_dir, resolved_scan_dir, scanner_status,
                    scanner_errors, findings, checkov, tfsec, terrascan, invoked,
                    response, value, severity, resource_type, issue, rerun_vars,
                    matcher_vars, cli_vars >>

NextNormalize == CallNormalizeSeverity \/ CallDetectCategory

SpecNormalize == InitNormalize /\ [][NextNormalize]_vars

(***************************************************************************)
(* The scan command of the command line (src/app/cli.py)                   *)
(***************************************************************************)

_SEVERITY_RANK == [low |-> 1, medium |-> 2, high |-> 3, critical |-> 4]

\* The path given to the command, the suffix of its name, and what the
\* Terraform files it leads to hold: HCL text, bytes that are not UTF-8,
\* text that is not HCL, or (for an archive) bytes that are not a zip file.
Target(arg, suffix, content) == [arg |-> arg, suffix |-> suffix, content |-> content]

Targets ==
    { Target(<<"/","x">>, ".tf", "hcl"),
      Target(<<"/","d">>, "", "hcl"),
      Target(<<"/","l">>, "", "hcl"),
      Target(<<"/","d">>, "", "not_utf8"),
      Target(FileDM, ".tf", "hcl"),
      Target(FileDM, ".tf", "not_utf8"),
      Target(FileDM, ".tf", "not_hcl"),
      Target(FileDM, ".zip", "hcl"),
      Target(FileDM, ".zip", "not_zip"),
      Target(FileDM, ".zip", "not_utf8"),
      Target(FileDM, ".txt", "hcl") }

\* choices of --fail-on
FailOn == {"none", "low", "medium", "high", "critical"}

\* --out-json / --out-md: not given, a place that can be written, one that
\* cannot (mkdir or write_text raises OSError).
OutJson == {"none", "writable", "unwritable"}

Parsed(rs, dir) == [raised |-> "no", resources |-> rs, scan_dir |-> dir]
ParseRaises(exception) == [raised |-> exception, resources |-> << >>, scan_dir |-> None]

\* The records the parser reads from HCL text in a file.
RecordsIn(file) == << ResourceRecord(file, S3, NameA), ResourceRecord(file, VM, NameB) >>

\* Reading the Terraform text: read_text / decode raise UnicodeDecodeError (a
\* ValueError) on bytes that are not UTF-8, hcl2 and zipfile raise exceptions
\* of their own on text that is not HCL and on bytes that are not a zip file.
ReadAs(content, parsed) ==
    CASE content = "hcl" -> parsed
      [] content = "not_utf8" -> ParseRaises("ValueError")
      [] OTHER -> ParseRaises("Exception")

_parse_resources(path, suffix, content) ==
    IF IsDir(path)
    THEN ReadAs(content, Parsed(RecordsIn(path \o <<"/","m">>), Some(path)))
    ELSE IF path \in FsFiles /\ suffix = ".tf"
    THEN ReadAs(content, Parsed(RecordsIn(path), Some(Parent(path))))
    ELSE IF path \in FsFiles /\ suffix = ".zip"
    THEN ReadAs(content, Parsed(<< ResourceRecord(FileRel, S3, NameA) >>, None))
    ELSE ParseRaises("ValueError")

_should_fail(fs, threshold) ==
    IF threshold = "none" THEN FALSE
    ELSE \E i \in 1..Len(fs) : _SEVERITY_RANK[fs[i].severity] >= _SEVERITY_RANK[threshold]

\* What a scanner does during a scan command.
CliBehaviours(name) ==
    { Behaviour(FALSE, "exit", 0, << >>, << >>),
      Behaviour(TRUE, "timeout", 0, << >>, << >>),
      Behaviour(TRUE, "exit", 0, << Json(JObj([results |-> JNull])) >>, << >>) }
    \cup { Behaviour(TRUE, "exit", 0, << Json(Document(name, JList(l))) >>, << >>) :
             l \in UNION {[1..n -> Items(name)] : n \in 0..1} }

InitCli ==
    /\ target \in Targets
    /\ fail_on \in FailOn
    /\ out_json \in OutJson
    /\ exit_code = -1
    /\ pc = "cli"
    /\ AnalyzeIdle
    /\ RerunIdle
    /\ MatcherIdle
    /\ NormalizerIdle

\* _run_scan up to the call of analyze
CliParse ==
    /\ pc = "cli"
    /\ LET path == Resolve(target.arg)
           parsed == _parse_resources(path, target.suffix, target.content)
       IN IF ~Exists(path)
          THEN exit_code' = 2 /\ pc' = "exit" /\ UNCHANGED << resources, scan_dir >>
          ELSE IF parsed.raised = "ValueError"
          THEN exit_code' = 2 /\ pc' = "exit" /\ UNCHANGED << resources, scan_dir >>
          ELSE IF parsed.raised = "Exception"
          THEN exit_code' = 3 /\ pc' = "exit" /\ UNCHANGED << resources, scan_dir >>
          ELSE /\ resources' = parsed.resources
               /\ scan_dir' = parsed.scan_dir
               /\ pc' = "start"
               /\ UNCHANGED exit_code
    /\ UNCHANGED << resolved_scan_dir, scanner_status, scanner_errors, findings,
                    checkov, tfsec, terrascan, invoked, response, target, fail_on,
                    out_json, rerun_vars, matcher_vars, normalizer_vars >>

CliStart == Start /\ UNCHANGED outside

CliCheckov == RunCheckov /\ invoked'.b \in CliBehaviours("checkov") /\ UNCHANGED outside

CliTfsec == RunTfsec /\ invoked'.b \in CliBehaviours("tfsec") /\ UNCHANGED outside

CliTerrascan ==
    RunTerrascan /\ invoked'.b \in CliBehaviours("terrascan") /\ UNCHANGED outside

CliAggregate == Aggregate /\ UNCHANGED outside

\* except Exception: an exception that left analyze (never a ValueError)
CliCatch ==
    /\ pc = "raised"
    /\ exit_code' = 3
    /\ pc' = "exit"
    /\ UNCHANGED << resources, scan_dir, resolved_scan_dir, scanner_status,
                    scanner_errors, findings, checkov, tfsec, terrascan, invoked,
                    response, target, fail_on, out_json, rerun_vars, matcher_vars,
                    normalizer_vars >>

\* _run_scan after analyze returned: the reports, then the policy gate. An
\* OSError from writing a report is caught nowhere: it leaves main and the
\* interpreter ends with status 1.
CliFinish ==
    /\ pc = "done"
    /\ IF out_json = "unwritable"
       THEN exit_code' = 1 /\ pc' = "crashed"
       ELSE /\ exit_code' = IF _should_fail(response.findings, fail_on) THEN 1 ELSE 0
            /\ pc' = "exit"
    /\ UNCHANGED << resources, scan_dir, resolved_scan_dir, scanner_status,
                    scanner_errors, findings, checkov, tfsec, terrascan, invoked,
                    response, target, fail_on, out_json, rerun_vars, matcher_vars,
                    normalizer_vars >>

NextCli ==
    \/ CliParse
    \/ CliStart
    \/ CliCheckov
    \/ CliTfsec
    \/ CliTerrascan
    \/ CliAggregate
    \/ CliCatch
    \/ CliFinish

SpecCli == InitCli /\ [][NextCli]_vars

(***************************************************************************)
(* Properties                                                              *)
(***************************************************************************)

Names == {"checkov", "tfsec", "terrascan"}

\* The _ScannerResult analyze holds for a scanner.
Result(name) ==
    CASE name = "checkov" -> checkov
      [] name = "tfsec" -> tfsec
      [] name = "terrascan" -> terrascan

Allowed(name) ==
    CASE name = "checkov" -> CheckovAllowed
      [] name = "tfsec" -> TfsecAllowed
      [] name = "terrascan" -> TerrascanAllowed

\* The adapter of this scanner has just been called.
JustRan(name) == invoked.name = name

Occurrences(seq, x) == Cardinality({i \in 1..Len(seq) : seq[i] = x})

\* Two lists hold the same elements, each as often.
SameBag(a, b) ==
    /\ Len(a) = Len(b)
    /\ \A i \in 1..Len(a) : Occurrences(a, a[i]) = Occurrences(b, a[i])

\* C1: analyze never raises to its caller: whatever the scanners do, the call
\* ends by returning a response, never by an exception leaving analyze.
C1_NeverRaises == pc /= "raised"

\* C2 (case): the scan directory is resolved, analyze has returned, exactly one
\* scanner ended "error" and the other two ended "ok" with findings.
C2_OneFailed(bad) ==
    /\ pc = "done"
    /\ resolved_scan_dir /= None
    /\ Result(bad).status = "error"
    /\ \A n \in Names \ {bad} : Result(n).status = "ok" /\ Result(n).findings /= << >>

\* The findings of the scanners other than bad, in invocation order.
RECURSIVE FindingsExcept(_, _)
FindingsExcept(bad, names) ==
    IF names = << >> THEN << >>
    ELSE (IF Head(names) = bad THEN << >> ELSE Result(Head(names)).findings)
         \o FindingsExcept(bad, Tail(names))

\* C2: when exactly one scanner ends "error" and the other two end "ok" with
\* findings, the response holds exactly the findings of the two successful
\* scanners, scanner_status gives every scanner its own outcome status, and
\* scanner_errors is exactly the failed scanner's message.
C2_PartialFailure ==
    \A bad \in Names :
        C2_OneFailed(bad) =>
            /\ SameBag(response.findings, FindingsExcept(bad, _SCANNERS))
            /\ response.findings_count = Len(FindingsExcept(bad, _SCANNERS))
            /\ \A n \in Names : response.scanner_status[n] = Result(n).status
            /\ Len(response.scanner_errors) = 1
            /\ response.scanner_errors[1] = Result(bad).error
            /\ response.scanner_errors[1].scanner = bad

C2_Witness == C2_OneFailed("tfsec")

\* C3: for an adapter whose executable is found and whose process exits, the
\* exit code decides the outcome: an allowed code gives status "ok" with the
\* findings parsed from stdout; any other code gives status "error", no
\* findings and a message carrying stderr, or stdout when stderr is empty.
C3_ExitCodeDecides ==
    \A name \in Names :
        (JustRan(name) /\ invoked.b.which /\ invoked.b.proc = "exit") =>
            IF invoked.b.code \in Allowed(name)
            THEN /\ ~Result(name).raised
                 /\ Result(name).status = "ok"
                 /\ Result(name).error = NoError
            ELSE /\ Result(name).status = "error"
                 /\ Result(name).findings = << >>
                 /\ Result(name).error.scanner = name
                 /\ Result(name).error.code = invoked.b.code
                 /\ Result(name).error.text =
                        IF OutStrip(invoked.b.stderr) /= << >>
                        THEN OutStrip(invoked.b.stderr)
                        ELSE OutStrip(invoked.b.stdout)

\* C4 (case): the orchestrator has returned and a scanner's executable was missing.
C4_Witness ==
    /\ pc = "done"
    /\ Result("terrascan").status = "unavailable"
    /\ Result("checkov").status = "ok"
    /\ response.findings /= << >>

\* C4: an adapter whose executable is not on the search path starts no process
\* and returns status "unavailable", no findings and a message naming its
\* scanner; the response records that status and carries that message.
C4_Unavailable ==
    /\ \A name \in Names :
           (JustRan(name) /\ ~invoked.b.which) =>
               /\ ~Result(name).spawned
               /\ ~Result(name).raised
               /\ Result(name).status = "unavailable"
               /\ Result(name).findings = << >>
               /\ Result(name).error /= NoError
               /\ Result(name).error.kind = "not_on_path"
               /\ Result(name).error.scanner = name
    /\ \A name \in Names :
           Result(name).status = "unavailable" => Result(name).error.scanner = name
    /\ pc = "done" =>
           \A name \in Names :
               Result(name).status = "unavailable" =>
                   /\ response.scanner_status[name] = "unavailable"
                   /\ Occurrences(response.scanner_errors, Result(name).error) = 1

\* pc once the adapter of a scanner has returned
AfterScanner(name) ==
    CASE name = "checkov" -> "tfsec"
      [] name = "tfsec" -> "terrascan"
      [] name = "terrascan" -> "aggregate"

TimedOut(name) ==
    Result(name).status = "error" /\ Result(name).error.code = TimeoutCode

\* C5 (case): checkov timed out, tfsec and terrascan then ran and found something.
C5_Witness ==
    /\ pc = "done"
    /\ TimedOut("checkov")
    /\ \A n \in {"tfsec", "terrascan"} :
           Result(n).status = "ok" /\ Result(n).findings /= << >>

\* C5: a timeout becomes exit code 124, which no scanner allows, so the
\* scanner ends "error" with no findings and a message; the call goes on to
\* the next scanner, and the response carries the other scanners' statuses
\* and findings.
C5_Timeout ==
    /\ TimeoutCode \notin (CheckovAllowed \cup TfsecAllowed \cup TerrascanAllowed)
    /\ \A name \in Names :
           (JustRan(name) /\ invoked.b.which /\ invoked.b.proc = "timeout") =>
               /\ TimedOut(name)
               /\ Result(name).findings = << >>
               /\ Result(name).error /= NoError
               /\ Result(name).error.scanner = name
               /\ pc = AfterScanner(name)
    /\ pc = "done" =>
           \A name \in Names :
               TimedOut(name) =>
                   /\ response.scanner_status[name] = "error"
                   /\ \A other \in Names \ {name} :
                          /\ Result(other).status /= "not_run"
                          /\ response.scanner_status[other] = Result(other).status
                          /\ \A i \in 1..Len(Result(other).findings) :
                                 Occurrences(response.findings, Result(other).findings[i])
                                 >= Occurrences(Result(other).findings,
                                                Result(other).findings[i])

\* No JSON object can be recovered from the output: it is empty, it is JSON
\* but not an object, it has no "{"..."}" span, or that span does not parse.
C6_NoObject(o) ==
    LET p == OutStrip(o)
        body == SelectSeq(p, NotWs)
    IN \/ p = << >>
       \/ Len(body) = 1 /\ body[1].k = "json" /\ body[1].v.t /= "obj"
       \/ /\ ~Loads(p).ok
          /\ \/ FindOpen(p) = 0
             \/ RFindClose(p) < FindOpen(p)
             \/ ~LoadsSlice(p, FindOpen(p), RFindClose(p)).ok

C6_Case(name) ==
    /\ JustRan(name)
    /\ invoked.b.which
    /\ invoked.b.proc = "exit"
    /\ invoked.b.code \in Allowed(name)
    /\ C6_NoObject(invoked.b.stdout)

\* C6 (case): output with a brace span that does not parse, or a JSON list.
C6_Witness ==
    /\ C6_Case("tfsec")
    /\ FindOpen(OutStrip(invoked.b.stdout)) > 0
    /\ tfsec.status = "ok"

\* C6: an allowed exit code with output from which no JSON object can be
\* recovered gives status "ok", no findings and no error message, and a
\* scanner that ended "ok" has no entry in scanner_errors.
C6_LenientParse ==
    /\ \A name \in Names :
           C6_Case(name) =>
               /\ ~Result(name).raised
               /\ Result(name).status = "ok"
               /\ Result(name).findings = << >>
               /\ Result(name).error = NoError
    /\ pc = "done" =>
           \A name \in Names :
               Result(name).status = "ok" =>
                   \A i \in 1..Len(response.scanner_errors) :
                       response.scanner_errors[i].scanner /= name

\* A scan directory was passed (None and "" count as not given).
Given == scan_dir.some /\ scan_dir.v /= << >>

\* C7 (case): an explicit scan directory that is a file, with resources from
\* which a directory could have been inferred.
C7_Witness ==
    /\ pc = "done"
    /\ Given
    /\ Resolve(scan_dir.v) \in FsFiles
    /\ \E i \in 1..Len(resources) : Resolve(resources[i].file) \in FsFiles

\* C7: when the scan directory is unresolved (in particular when one is given
\* that is not an existing directory) no scanner is attempted, every scanner
\* is "skipped", there are no findings, scanner_errors is exactly one note
\* and the score is 100.
C7_Skipped ==
    /\ (pc /= "start" /\ Given /\ Resolve(scan_dir.v) \notin FsDirs) =>
           resolved_scan_dir = None
    /\ (pc /= "start" /\ resolved_scan_dir = None) =>
           /\ pc \in {"aggregate", "done"}
           /\ invoked = NoInvocation
           /\ \A name \in Names : Result(name) = NotRun
    /\ (pc = "done" /\ resolved_scan_dir = None) =>
           /\ \A name \in Names : response.scanner_status[name] = "skipped"
           /\ response.findings = << >>
           /\ response.findings_count = 0
           /\ Len(response.scanner_errors) = 1
           /\ response.scanner_errors[1] = SkippedNote
           /\ response.score.score = 100

\* The record's file is an absolute path that exists.
Usable(r) == IsAbsolute(r.file) /\ Resolve(r.file) \in (FsFiles \cup FsDirs)

\* The directory holding the record's file, symbolic links followed.
ParentDir(r) == Resolve(Parent(r.file))

\* C8 as stated: with no scan directory given, a directory is inferred only if
\* every record's file is an absolute, existing path and all records share
\* one parent directory; a relative or missing file path, or two different
\* parents, leaves the directory unresolved.
C8_InferOnlyIfEvery ==
    (pc /= "start" /\ ~Given /\ resolved_scan_dir /= None) =>
        /\ \A i \in 1..Len(resources) : Usable(resources[i])
        /\ \A i, j \in 1..Len(resources) : ParentDir(resources[i]) = ParentDir(resources[j])

\* C8 (case): a directory is inferred although one record's file is relative
\* or missing.
C8_Witness ==
    /\ pc = "done"
    /\ ~Given
    /\ resolved_scan_dir /= None
    /\ \E i \in 1..Len(resources) : ~Usable(resources[i])

\* C8, amended: with no scan directory given, a directory is inferred exactly
\* when at least one record's file is an absolute, existing path and all such
\* records share one parent directory, which is the directory inferred;
\* records whose file is relative or missing are ignored; when nothing is
\* inferred every scanner is skipped.
C8_InferFromUsable ==
    LET usable == {i \in 1..Len(resources) : Usable(resources[i])}
        agree == \A i, j \in usable : ParentDir(resources[i]) = ParentDir(resources[j])
    IN (pc /= "start" /\ ~Given) =>
           /\ resolved_scan_dir /= None <=> (usable /= {} /\ agree)
           /\ resolved_scan_dir /= None =>
                  \A i \in usable : resolved_scan_dir = Some(ParentDir(resources[i]))
           /\ (pc = "done" /\ resolved_scan_dir = None) =>
                  \A name \in Names : response.scanner_status[name] = "skipped"

\* C9 (case): six findings whose penalty exceeds 100, so the score is clamped.
C9_Witness ==
    /\ pc = "done"
    /\ response.findings_count = 6
    /\ response.score.by_severity.critical >= 4
    /\ response.score.by_severity.high >= 2
    /\ response.score.score = 0

\* C9: in every response findings_count is the length of findings, the four
\* by_severity counts sum to findings_count, and the score is
\* max(0, min(100, 100 - (2*low + 6*medium + 12*high + 20*critical))),
\* which lies in 0..100.
C9_ScoreAndCounts ==
    pc = "done" =>
        LET by == response.score.by_severity
            raw == 100 - (2 * by.low + 6 * by.medium + 12 * by.high + 20 * by.critical)
        IN /\ response.findings_count = Len(response.findings)
           /\ DOMAIN by = {"critical", "high", "medium", "low"}
           /\ by.critical + by.high + by.medium + by.low = response.findings_count
           /\ \A sev \in DOMAIN by :
                  by[sev] = Cardinality({i \in 1..Len(response.findings) :
                                            response.findings[i].severity = sev})
           /\ response.score.score =
                  (IF raw > 100 THEN 100 ELSE IF raw < 0 THEN 0 ELSE raw)
           /\ response.score.score \in 0..100

\* Rank of a severity in the required order, critical first.
C10_Rank(sev) ==
    CASE sev = "critical" -> 0 [] sev = "high" -> 1 [] sev = "medium" -> 2
      [] sev = "low" -> 3

\* f may stand before g: severity descending, then source_library ascending,
\* then resource ascending.
C10_InOrder(f, g) ==
    \/ C10_Rank(f.severity) < C10_Rank(g.severity)
    \/ /\ f.severity = g.severity
       /\ \/ StrLess(NameChars(f.source_library), NameChars(g.source_library))
          \/ /\ f.source_library = g.source_library
             /\ (StrLess(f.resource, g.resource) \/ f.resource = g.resource)

C10_Tie(f, g) ==
    /\ f.severity = g.severity
    /\ f.source_library = g.source_library
    /\ f.resource = g.resource

\* The findings in the order the adapters emitted them.
C10_Emitted == checkov.findings \o tfsec.findings \o terrascan.findings

\* C10 (case): two different findings that tie on all three keys, and a
\* terrascan finding placed before a tfsec finding of the same severity.
C10_Witness ==
    /\ pc = "done"
    /\ \E i, j \in 1..Len(response.findings) :
           /\ i < j
           /\ C10_Tie(response.findings[i], response.findings[j])
           /\ response.findings[i] /= response.findings[j]
    /\ \E i, j \in 1..Len(response.findings) :
           /\ i < j
           /\ response.findings[i].severity = response.findings[j].severity
           /\ response.findings[i].source_library = "terrascan"
           /\ response.findings[j].source_library = "tfsec"
    /\ response.findings /= C10_Emitted

\* C10: the findings of a response are ordered by severity (critical first),
\* then source_library ascending, then resource ascending, and findings that
\* tie on all three keep the order in which the adapters emitted them.
C10_SortedStable ==
    (pc = "done" /\ resolved_scan_dir /= None) =>
        /\ SameBag(response.findings, C10_Emitted)
        /\ \A i, j \in 1..Len(response.findings) :
               i < j => C10_InOrder(response.findings[i], response.findings[j])
        /\ \A i \in 1..Len(response.findings) :
               LET Tied(g) == C10_Tie(response.findings[i], g)
               IN SelectSeq(response.findings, Tied) = SelectSeq(C10_Emitted, Tied)

\* The second call of analyze has ended.
SecondEnded == round = 2 /\ pc \in {"done", "raised"}

Resolved == pc = "resolved"

\* The reference and the file hint after trimming.
Ref == Strip(StrOrEmpty(raw_resource))
Hint == Strip(StrOrEmpty(raw_file))

KnownIds == {RidOf(resources[i]) : i \in 1..Len(resources)}

\* The tuple resolve returns for a record.
TupleOf(r) ==
    [rid |-> r.resource_type \o << "." >> \o r.resource_name,
     rtype |-> r.resource_type, rname |-> r.resource_name, file |-> r.file]

\* The known ids that end the reference.
EndsRef(id) == \E k \in 0..Len(Ref) : SubSeq(Ref, k + 1, Len(Ref)) = id
SuffixIds == {id \in KnownIds : EndsRef(id)}

\* The result is a record of the index, under the id of that record.
FromIndex == \E i \in 1..Len(resources) : resolved = TupleOf(resources[i])

\* C12: a reference that is not a known canonical id but, after trimming,
\* ends with a known canonical id resolves to a canonical id that ends it,
\* with the resource_type, resource_name and file of a record with that id
\* (so the file is the record's, not the hint), not to the reference as given.
C12_SuffixMatch ==
    (Resolved /\ Ref \notin KnownIds /\ SuffixIds /= {}) =>
        /\ resolved.rid \in SuffixIds
        /\ FromIndex
        /\ resolved.rid /= Ref

\* A module-qualified reference, blanks around it, with a file hint.
C12_Witness ==
    /\ Resolved
    /\ raw_resource = Some(<<" ", "b", ".", "a", ".", "b", " ">>)
    /\ raw_file /= None
    /\ resources = << ResourceRecord(FileDM, TypeA, NameB) >>
    /\ resolved = TupleOf(resources[1])

\* The places of the dots of the reference.
Dots(str) == {i \in 1..Len(str) : str[i] = "."}
FirstDot(str) == CHOOSE i \in Dots(str) : \A j \in Dots(str) : i <= j
LastDot(str) == CHOOSE i \in Dots(str) : \A j \in Dots(str) : j <= i

\* The maximal dot-free, non-empty runs of the reference, as (from, to).
Runs(str) ==
    {run \in (1..Len(str)) \X (1..Len(str)) :
        /\ run[1] <= run[2]
        /\ \A i \in run[1]..run[2] : str[i] /= "."
        /\ run[1] = 1 \/ str[run[1] - 1] = "."
        /\ run[2] = Len(str) \/ str[run[2] + 1] = "."}

LastRun(str) ==
    LET last == CHOOSE run \in Runs(str) : \A other \in Runs(str) : other[1] <= run[1]
    IN SubSeq(str, last[1], last[2])

Owners(name) == {i \in 1..Len(resources) : resources[i].resource_name = name}

\* The rules of the index, each by its own condition.
ExactRule == Ref \in KnownIds
SuffixRule == Ref /= << >> /\ SuffixIds /= {}
SegmentRule ==
    /\ Dots(Ref) /= {}
    /\ Cardinality(Runs(Ref)) >= 2
    /\ Cardinality(Owners(LastRun(Ref))) = 1
BareRule == Ref /= << >> /\ Cardinality(Owners(Ref)) = 1

NoRule == ~ExactRule /\ ~SuffixRule /\ ~SegmentRule /\ ~BareRule

\* The fallback tuple synthesized from a reference and a file hint.
Synthesized(ref, hint) ==
    LET type == IF Dots(ref) /= {} THEN SubSeq(ref, 1, FirstDot(ref) - 1)
                ELSE UNKNOWN_RESOURCE
        name == IF ref = << >> THEN UNMAPPED
                ELSE IF Dots(ref) /= {} THEN SubSeq(ref, LastDot(ref) + 1, Len(ref))
                ELSE ref
    IN [rid |-> IF ref /= << >> THEN ref ELSE type \o << "." >> \o name,
        rtype |-> type, rname |-> name, file |-> hint]

\* C13 as stated: when no index rule matches, the result is synthesized from
\* the reference and the file hint exactly as they were passed in (verbatim).
C13_FallbackVerbatim ==
    (Resolved /\ NoRule) =>
        resolved = Synthesized(StrOrEmpty(raw_resource), StrOrEmpty(raw_file))

\* C13 (amended): when no index rule matches, the result is synthesized from
\* the trimmed reference and the trimmed file hint (empty when none is given):
\* type = the text before the first dot, or "unknown_resource" without a dot;
\* name = the text after the last dot, or "unmapped" for an empty reference;
\* canonical id = the trimmed reference if non-empty, else type + "." + name;
\* file = the trimmed file hint.
C13_FallbackTrimmed ==
    (Resolved /\ NoRule) => resolved = Synthesized(Ref, Hint)

\* An empty index, a three-segment reference with blanks around it, a hint.
C13_Witness ==
    /\ Resolved
    /\ resources = << >>
    /\ raw_resource = Some(<<" ", "a", ".", "b", ".", "a", " ">>)
    /\ raw_file = Some(<<" ","/","m"," ">>)
    /\ resolved = [rid |-> <<"a", ".", "b", ".", "a">>, rtype |-> <<"a">>,
                   rname |-> <<"a">>, file |-> <<"/","m">>]

\* _normalize_severity has returned.
SeverityDone == pc \in {"category", "normalized"}

\* The token of a severity value: its text, trimmed and lower-cased; the
\* empty text for a missing or empty value and for zero.
TokenOf(val) ==
    IF val.t = "null" \/ (val.t = "num" /\ val.v = 0) THEN << >>
    ELSE IF val.t = "num" THEN << Alphabet[Ord("0") + val.v] >>
    ELSE Lower(Strip(val.v))

\* The severity the mapping gives a token.
MappedSeverity(token) ==
    CASE token \in { <<"c","r","i","t","i","c","a","l">>, <<"v","e","r","y","_","h","i","g","h">> } -> "critical"
      [] token \in { <<"h","i","g","h">>, <<"e","r","r","o","r">> } -> "high"
      [] token \in { <<"m","e","d","i","u","m">>, <<"m","o","d","e","r","a","t","e">>, <<"w","a","r","n","i","n","g">> } -> "medium"
      [] OTHER -> "low"

\* C14: severity normalisation is total and case-insensitive: the value,
\* trimmed and lower-cased, maps critical and very_high to critical, high and
\* error to high, medium, moderate and warning to medium, and anything else
\* (missing, empty, unrecognised) to low; "ERROR" gives high, "foo" gives low,
\* and the result is always one of low, medium, high, critical.
C14_SeverityMapping ==
    SeverityDone =>
        /\ severity = MappedSeverity(TokenOf(value))
        /\ severity \in {"low", "medium", "high", "critical"}
        /\ value = JStr(<<"E","R","R","O","R">>) => severity = "high"
        /\ value = JStr(<<"f","o","o">>) => severity = "low"
        /\ value = JNull => severity = "low"

\* "  VERY_HIGH" has been normalised to critical.
C14_Witness ==
    /\ SeverityDone
    /\ value = JStr(<<" "," ","V","E","R","Y","_","H","I","G","H">>)
    /\ severity = "critical"

\* _detect_category has returned.
CategoryDone == pc = "normalized"

\* C15: the category computed for resource_type "aws_security_group" and
\* issue "open ingress" is "network".
C15_SecurityGroupIsNetwork ==
    (CategoryDone /\ resource_type = AWS_SECURITY_GROUP /\ issue = OPEN_INGRESS) =>
        category = "network"

\* The buckets in priority order, each with its keywords.
Buckets ==
    << [name |-> "identity", words |-> { <<"r","o","l","e">>, <<"i","d","e","n","t","i","t","y">>, <<"r","b","a","c">>, <<"i","a","m">>, <<"p","r","i","n","c","i","p","a","l">> }],
       [name |-> "network", words |-> { <<"n","s","g">>, <<"n","e","t","w","o","r","k">>, <<"i","n","b","o","u","n","d">>, <<"e","g","r","e","s","s">>, <<"f","i","r","e","w","a","l","l">>, <<"p","u","b","l","i","c"," ","i","p">> }],
       [name |-> "storage", words |-> { <<"s","t","o","r","a","g","e">>, <<"b","l","o","b">>, <<"s","3">>, <<"b","u","c","k","e","t">> }],
       [name |-> "compute", words |-> { <<"v","m">>, <<"c","o","m","p","u","t","e">>, <<"c","o","n","t","a","i","n","e","r">>, <<"k","u","b","e","r","n","e","t","e","s">>, <<"d","i","s","k">> }],
       [name |-> "monitoring", words |-> { <<"m","o","n","i","t","o","r">>, <<"l","o","g">>, <<"d","i","a","g","n","o","s","t","i","c">>, <<"a","l","e","r","t">> }] >>

\* The lower-cased text "resource_type issue".
CategoryText == Lower(resource_type \o << " " >> \o issue)

Occurs(word, text) ==
    \E from \in 1..Len(text) : \E to \in from..Len(text) : SubSeq(text, from, to) = word

\* The buckets with a keyword occurring in the text.
Hit == {i \in 1..Len(Buckets) : \E w \in Buckets[i].words : Occurs(w, CategoryText)}

\* C20: category classification is total with a fixed bucket priority over
\* the lower-cased text "resource_type issue": the category is the first of
\* identity, network, storage, compute, monitoring with a keyword occurring
\* as a substring, and "general" when there is none; it is always one of the
\* six categories.
C20_BucketPriority ==
    CategoryDone =>
        /\ category \in {"identity", "network", "storage", "compute", "monitoring",
                         "general"}
        /\ IF Hit = {} THEN category = "general"
           ELSE /\ \E i \in Hit : category = Buckets[i].name
                /\ \A i \in Hit : \A j \in 1..(i - 1) : category /= Buckets[i].name
                                                      \/ j \notin Hit

\* Network, storage, compute and monitoring keywords occur together, and
\* network wins.
C20_Witness ==
    /\ CategoryDone
    /\ {2, 3, 4, 5} \subseteq Hit
    /\ 1 \notin Hit
    /\ category = "network"

\* C16: every finding's resource is a canonical id in <type>.<name> format:
\* it equals resource_type + "." + resource_name, for every finding of every
\* response, findings resolved by the synthesized fallback included.
C16_CanonicalFormat ==
    pc = "done" =>
        \A i \in 1..Len(response.findings) :
            response.findings[i].resource =
                response.findings[i].resource_type \o << "." >>
                \o response.findings[i].resource_name

\* The name a reference proposes: its last segment when it is dotted with at
\* least two segments, else the reference itself.
CandidateName ==
    IF Dots(Ref) /= {} /\ Cardinality(Runs(Ref)) >= 2 THEN LastRun(Ref) ELSE Ref

\* More than one known resource is an equally valid candidate: several known
\* ids end the reference, or no id does and several records share the name.
Ambiguous ==
    /\ ~ExactRule
    /\ \/ Cardinality(SuffixIds) > 1
       \/ SuffixIds = {} /\ Cardinality(Owners(CandidateName)) > 1

\* C18: reconciliation ambiguity is never resolved by guessing: whenever
\* more than one known resource is an equally valid candidate for a
\* reference, resolve returns the synthesized fallback and none of the
\* candidate records.
C18_NoGuess ==
    (Resolved /\ Ambiguous) => (resolved = Synthesized(Ref, Hint) /\ ~FromIndex)

\* The unique record owning a name.
OwnerOf(name) == resources[CHOOSE i \in Owners(name) : TRUE]

\* C19: resolve applies its rules in a fixed priority, the first match wins:
\* (1) exact canonical id, (2) a known canonical id ending the reference,
\* (3) the last segment of a dotted reference with at least two non-empty
\* segments naming exactly one record, (4) a bare reference equal to a name
\* owned by exactly one record, (5) the synthesized fallback; a lower rule
\* gives the result only when every higher rule fails.
C19_RulePriority ==
    Resolved =>
        IF ExactRule THEN resolved.rid = Ref /\ FromIndex
        ELSE IF SuffixRule THEN resolved.rid \in SuffixIds /\ FromIndex
        ELSE IF SegmentRule THEN resolved = TupleOf(OwnerOf(LastRun(Ref)))
        ELSE IF BareRule THEN resolved = TupleOf(OwnerOf(Ref))
        ELSE resolved = Synthesized(Ref, Hint) /\ resolved.rid \notin KnownIds

\* The reference equals a known id while another known id, earlier in the
\* index, ends it: the exact rule wins.
C19_Witness ==
    /\ Resolved
    /\ resources = << ResourceRecord(FileDM, TypeA, NameB),
                      ResourceRecord(FileEM, TypeAA, NameB) >>
    /\ Ref = <<"a", "a", ".", "b">>
    /\ Cardinality(SuffixIds) = 2
    /\ resolved = TupleOf(resources[2])

\* The scan command has ended.
Exited == pc \in {"exit", "crashed"}

\* The target path does not exist; it exists but is not a directory, a .tf
\* file or a .zip archive.
MissingTarget == ~Exists(Resolve(target.arg))
UnsupportedTarget ==
    /\ ~MissingTarget
    /\ ~IsDir(Resolve(target.arg))
    /\ target.suffix \notin {".tf", ".zip"}

\* Any other runtime failure: the Terraform text cannot be read or parsed,
\* analyze raises, a report cannot be written.
RuntimeFailure ==
    /\ ~MissingTarget
    /\ ~UnsupportedTarget
    /\ \/ target.content /= "hcl"
       \/ \E n \in Names : Result(n).raised
       \/ out_json = "unwritable"

SeverityRank(sev) ==
    CASE sev = "low" -> 1 [] sev = "medium" -> 2 [] sev = "high" -> 3
      [] sev = "critical" -> 4

\* Some finding meets or exceeds the --fail-on threshold.
ThresholdMet ==
    /\ fail_on /= "none"
    /\ \E i \in 1..Len(response.findings) :
         SeverityRank(response.findings[i].severity) >= SeverityRank(fail_on)

\* C17: the scan command exits 2 for a missing or unsupported target, 3 for
\* any other runtime failure, and otherwise 1 if --fail-on is not "none" and
\* some finding's severity rank (low < medium < high < critical) meets or
\* exceeds the threshold, else 0; so it exits 1 exactly when the threshold is
\* met, and never with --fail-on none.
C17_PolicyGate ==
    Exited =>
        exit_code = IF MissingTarget \/ UnsupportedTarget THEN 2
                    ELSE IF RuntimeFailure THEN 3
                    ELSE IF ThresholdMet THEN 1
                    ELSE 0

\* The places of the records with an id, and the last of them.
Holders(id) == {i \in 1..Len(resources) : RidOf(resources[i]) = id}
LastHolder(id) == CHOOSE i \in Holders(id) : \A j \in Holders(id) : j <= i

\* Some canonical id is declared by more than one record.
Colliding == \E id \in KnownIds : Cardinality(Holders(id)) > 1

\* C21: over a resource list with colliding canonical ids the exact-id lookup
\* holds exactly one record per id, the last with that id in list order, and
\* the by-name lookup keeps every record sharing a name, the colliding ones
\* included; so an exact-id reference resolves to the last colliding record's
\* file, and a name-based reference to the same records is ambiguous and ends
\* in the synthesized fallback.
C21_LastWriteWins ==
    Resolved =>
        /\ \A id \in KnownIds :
             /\ Cardinality({k \in 1..Len(ById(resources)) : ById(resources)[k].key = id}) = 1
             /\ \A k \in 1..Len(ById(resources)) :
                  ById(resources)[k].key = id =>
                      ById(resources)[k].val = resources[LastHolder(id)]
        /\ Len(ById(resources)) = Cardinality(KnownIds)
        /\ \A i \in 1..Len(resources) :
             LET name == resources[i].resource_name
             IN /\ Len(ByName(resources, name)) = Cardinality(Owners(name))
                /\ \E k \in 1..Len(ByName(resources, name)) :
                     ByName(resources, name)[k] = resources[i]
        /\ ExactRule => resolved = TupleOf(resources[LastHolder(Ref)])
        /\ (Colliding /\ ~ExactRule /\ ~SuffixRule /\ Cardinality(Owners(CandidateName)) > 1) =>
               (resolved = Synthesized(Ref, Hint) /\ ~FromIndex)

\* a.b is declared in /d/m and again in /e/m; the reference a.b resolves to
\* the record of /e/m.
C21_Witness ==
    /\ Resolved
    /\ resources = << ResourceRecord(FileDM, TypeA, NameB),
                      ResourceRecord(FileEM, TypeA, NameB) >>
    /\ Colliding
    /\ Ref = <<"a", ".", "b">>
    /\ resolved.file = FileEM

\* An adapter call that has returned its outcome: completed, failed or timed out.
Finished(name) == Result(name).status \in {"ok", "error", "unavailable"}

\* Nothing has been merged, sorted, grouped or scored.
NothingMerged ==
    /\ findings = << >>
    /\ scanner_status = AllSkipped
    /\ scanner_errors = << >>
    /\ response = NoResponse

\* The adapter of a scanner, by name.
Adapter(name, rs, b) ==
    CASE name = "checkov" -> _run_checkov(rs, b)
      [] name = "tfsec" -> _run_tfsec(rs, b)
      [] name = "terrascan" -> _run_terrascan(rs, b)

\* C22: in a call of analyze with a resolved scan directory, as long as one of
\* checkov, tfsec and terrascan has not produced its outcome nothing is added
\* to the merged list, sorted, grouped or scored, and the call returns only
\* when all three have; the adapters share nothing but the resource index:
\* the outcome of each is that of its own process over the index, and a
\* scanner later in the order is untouched while an earlier one has not run.
C22_MergeAfterAll ==
    /\ (resolved_scan_dir /= None /\ \E name \in Names : ~Finished(name)) => NothingMerged
    /\ (resolved_scan_dir /= None /\ pc = "done") => \A name \in Names : Finished(name)
    /\ \A name \in Names :
         JustRan(name) => Result(name) = Adapter(name, resources, invoked.b)
    /\ checkov = NotRun => tfsec = NotRun
    /\ tfsec = NotRun => terrascan = NotRun

\* The call has returned, each of the three scanners reported findings and
\* all of them are in the merged list.
C22_Witness ==
    /\ pc = "done"
    /\ resolved_scan_dir /= None
    /\ \A name \in Names : Finished(name) /\ Result(name).findings /= << >>
    /\ Len(response.findings) =
           Len(checkov.findings) + Len(tfsec.findings) + Len(terrascan.findings)

\* The findings of the response that carry a scanner's name, and the entries
\* of scanner_errors that are that scanner's message.
FindingsOf(name) ==
    {i \in 1..Len(response.findings) : response.findings[i].source_library = name}
ErrorsOf(name) ==
    {i \in 1..Len(response.scanner_errors) : response.scanner_errors[i].scanner = name}

\* The scanners that did not get to report.
Troubled == {name \in Names : response.scanner_status[name] \in {"unavailable", "error"}}

\* C23: in every response each finding's source_library names a scanner whose
\* scanner_status is "ok"; a scanner with status "skipped", "unavailable" or
\* "error" has no finding in the response and a scanner with status "ok" no
\* entry in scanner_errors, so scanner_errors has as many entries as there
\* are scanners with status "unavailable" or "error", or exactly one when all
\* are "skipped".
C23_StatusMatchesFindings ==
    pc = "done" =>
        /\ \A i \in 1..Len(response.findings) :
             /\ response.findings[i].source_library \in Names
             /\ response.scanner_status[response.findings[i].source_library] = "ok"
        /\ \A name \in Names :
             /\ response.scanner_status[name] \in {"ok", "skipped", "unavailable", "error"}
             /\ response.scanner_status[name] /= "ok" => FindingsOf(name) = {}
             /\ response.scanner_status[name] = "ok" => ErrorsOf(name) = {}
             /\ Cardinality(ErrorsOf(name)) = IF name \in Troubled THEN 1 ELSE 0
        /\ Len(response.scanner_errors) =
               IF \A name \in Names : response.scanner_status[name] = "skipped"
               THEN 1
               ELSE Cardinality(Troubled)

\* checkov reported findings, tfsec failed and terrascan was not installed:
\* the findings are all checkov's and scanner_errors has two entries.
C23_Witness ==
    /\ pc = "done"
    /\ response.scanner_status["checkov"] = "ok"
    /\ response.scanner_status["tfsec"] = "error"
    /\ response.scanner_status["terrascan"] = "unavailable"
    /\ FindingsOf("checkov") /= {}
    /\ Len(response.scanner_errors) = 2

\* The groups of the response, and the findings of a resource in the order
\* of the sorted findings list.
Groups == response.findings_by_resource
OfResource(rid) == SelectSeq(response.findings, LAMBDA f : f.resource = rid)

RECURSIVE SumOfSizes(_)
SumOfSizes(groups) ==
    IF groups = << >> THEN 0 ELSE Len(Head(groups).val) + SumOfSizes(Tail(groups))

\* C24: findings_by_resource is a partition of findings: there is one group
\* per resource that has a finding and none is empty, each group holds the
\* findings whose resource field is its key, no others, in the relative
\* order of the sorted findings list, and the group sizes sum to
\* findings_count.
C24_GroupsPartition ==
    pc = "done" =>
        /\ \A k, l \in 1..Len(Groups) : Groups[k].key = Groups[l].key => k = l
        /\ \A k \in 1..Len(Groups) :
             /\ Groups[k].val /= << >>
             /\ Groups[k].val = OfResource(Groups[k].key)
        /\ \A i \in 1..Len(response.findings) :
             \E k \in 1..Len(Groups) : Groups[k].key = response.findings[i].resource
        /\ SumOfSizes(Groups) = response.findings_count
        /\ response.findings_count = Len(response.findings)

\* The response has two groups, one of them with findings of two scanners.
C24_Witness ==
    /\ pc = "done"
    /\ Len(Groups) = 2
    /\ \E k \in 1..Len(Groups) :
         /\ Len(Groups[k].val) >= 2
         /\ Groups[k].val[1].source_library /= Groups[k].val[2].source_library
    /\ response.findings_count >= 3

====
